---------------------------- MODULE Spec2Model ----------------------------
(***************************************************************************)
(* A model of the 2D affine-transform core of the gi package:              *)
(*   - Matrix2D and its constructors, Multiply, TransformPoint/Vector,     *)
(*     the prepend methods Translate/Scale/Rotate/Shear/Skew and the       *)
(*     decomposition ExtractRot / ExtractScale;                            *)
(*   - the number scanner ReadPoints with ParseFloat32;                    *)
(*   - the transform-list parser Matrix2D.SetString;                       *)
(*   - the pixel-rectangle helpers RectFromPosSizeMax / RectFromPosSizeMin;*)
(*   - the angle parser ParseAngle32.                                      *)
(*                                                                         *)
(* Numbers.  A float32 is modelled by the decimal it denotes, the pair     *)
(* <<m, e>> standing for m * 10^e, kept normalised (m carries no trailing  *)
(* zero, zero is <<0, 0>>).  Sums and products are exact; every input set  *)
(* below is chosen so that the float32 computation is exact as well        *)
(* (short decimals, small integers).  strconv.ParseFloat's range error for *)
(* values beyond the float32 range and its flush to zero for values below  *)
(* it are modelled.                                                        *)
(*                                                                         *)
(* Angles.  A radian angle is modelled by the integer k standing for       *)
(* k * pi/4.  Cos and Sin are evaluated at even k (quarter turns), Tan at  *)
(* k = 0, 1, 3 mod 4, where their values are 0, 1 and -1; Atan2 is          *)
(* evaluated on the eight directions that give such angles.  Arguments     *)
(* outside these domains have no value in the model (the evaluation        *)
(* stops), so no result is ever invented.                                  *)
(*                                                                         *)
(* Strings.  A string is a sequence of one-character strings.              *)
(***************************************************************************)
EXTENDS Integers, Sequences, FiniteSets, TLC

VARIABLES
    \* ---- matrix algebra (one goroutine building and combining matrices)
    m,        \* the matrix being built
    prev,     \* m before the last operation
    other,    \* a second, saved matrix (the operand of Multiply)
    hist,     \* the operations applied to m since it was last Identity2D()
    ext,      \* the result of the last ExtractRot / ExtractScale, or NoExt
    \* ---- ReadPoints
    pstr,     \* the argument string
    pts,      \* the returned slice (nil is the empty sequence)
    rpc,      \* "in" while the argument is being chosen, "ret" once returned
    \* ---- SetString
    a,        \* the receiver *a
    a0,       \* the receiver's value when SetString was called
    cmds,     \* the commands the argument string was written from
    input,    \* the argument string str
    str,      \* the local str: what is left to parse
    pc,       \* "write", "loop", "ret"
    err,      \* "nil", "error", "panic"
    \* ---- RectFromPosSizeMax / RectFromPosSizeMin
    rpos,     \* the argument pos
    rsz,      \* the argument sz
    rmax,     \* the rectangle RectFromPosSizeMax returned, or NoRect
    rmin,     \* the rectangle RectFromPosSizeMin returned, or NoRect
    rectpc,   \* "in" while the arguments are being chosen, "call" after
    \* ---- ParseAngle32
    apstr,    \* the argument string
    aparts,   \* the number and the unit the argument was written from
    ares,     \* the returned angle and error
    apc,      \* "in" while the argument is being chosen, "ret" once returned
    \* ---- goroutines calling SetString on receivers of their own
    cin,      \* cin[i]: the argument string of goroutine i
    c0,       \* c0[i]: its receiver's value before the call
    ca,       \* ca[i]: its receiver
    cstr,     \* cstr[i]: its local str
    cpc,      \* cpc[i]: "write", "loop", "ret"
    cerr,     \* cerr[i]: the error it returned
    \* ---- a Dialog and the window it is shown in
    State,    \* dlg.State
    SigVal,   \* dlg.SigVal
    Win,      \* dlg.Win: "nil", "open", "closing" (close requested), "gone"
    choices,  \* the buttons of a ChoiceDialog (TRUE: named cancel), <<>> for Ok / Cancel
    dlog,     \* the calls of Accept, Cancel, DialogSig.Emit and Close, in order
    \* ---- MethViewCall
    md,       \* the MethViewData of the action that fired
    mvpc,     \* "idle", "wait" (a receiver function is connected), "done"
    conn,     \* the dialog the receiver function is connected to
    called    \* the number of calls of MethViewCallMeth

vars == <<m, prev, other, hist, ext, pstr, pts, rpc, a, a0, cmds, input, str, pc, err,
          rpos, rsz, rmax, rmin, rectpc, apstr, aparts, ares, apc,
          cin, c0, ca, cstr, cpc, cerr,
          State, SigVal, Win, choices, dlog, md, mvpc, conn, called>>

algVars == <<m, prev, other, hist, ext>>
rpVars  == <<pstr, pts, rpc>>
ssVars  == <<a, a0, cmds, input, str, pc, err>>
rectVars == <<rpos, rsz, rmax, rmin, rectpc>>
paVars  == <<apstr, aparts, ares, apc>>
ccVars  == <<cin, c0, ca, cstr, cpc, cerr>>
dlgVars == <<State, SigVal, Win, choices, dlog>>
mvVars  == <<md, mvpc, conn, called>>

---------------------------------------------------------------------------
(* float32 values as exact decimals                                        *)

RECURSIVE Pow10(_)
Pow10(n) == IF n = 0 THEN 1 ELSE 10 * Pow10(n - 1)

RECURSIVE F32Norm(_, _)
F32Norm(mant, exp) ==
    IF mant = 0 THEN <<0, 0>>
    ELSE IF mant % 10 = 0 THEN F32Norm(mant \div 10, exp + 1)
    ELSE <<mant, exp>>

\* the float32 of an integer literal
F32(n) == F32Norm(n, 0)

Zero == F32(0)
One  == F32(1)

\* x + y
F32Add(x, y) ==
    LET e == IF x[2] < y[2] THEN x[2] ELSE y[2]
    IN  F32Norm(x[1] * Pow10(x[2] - e) + y[1] * Pow10(y[2] - e), e)

\* x * y
F32Mul(x, y) == F32Norm(x[1] * y[1], x[2] + y[2])

\* a negation that keeps the sign
F32NegKeepsSign(x) == x

\* -x
F32Neg(x) == <<-x[1], x[2]>>

\* x > 0
F32Pos(x) == x[1] > 0

---------------------------------------------------------------------------
(* angles: k stands for k * pi/4 radians                                   *)

\* math32.Cos at a quarter turn
Cos(k) ==
    CASE k % 8 = 0 -> F32(1)
      [] k % 8 = 2 -> F32(0)
      [] k % 8 = 4 -> F32(-1)
      [] k % 8 = 6 -> F32(0)

\* math32.Sin at a quarter turn
Sin(k) ==
    CASE k % 8 = 0 -> F32(0)
      [] k % 8 = 2 -> F32(1)
      [] k % 8 = 4 -> F32(0)
      [] k % 8 = 6 -> F32(-1)

\* math32.Tan at a multiple of pi/4 other than an odd quarter turn
Tan(k) ==
    CASE k % 4 = 0 -> F32(0)
      [] k % 4 = 1 -> F32(1)
      [] k % 4 = 3 -> F32(-1)

\* math32.Atan2(y, x), in (-pi, pi], on the axes and the diagonals;
\* Atan2(0, 0) = 0.  (For x < 0 Go gives -pi when y is the float -0; callers
\* compare angles modulo a full turn, where pi and -pi agree.)
Atan2(y, x) ==
    LET sy == IF y[1] > 0 THEN 1 ELSE IF y[1] < 0 THEN -1 ELSE 0
        sx == IF x[1] > 0 THEN 1 ELSE IF x[1] < 0 THEN -1 ELSE 0
        diag == F32Mul(x, x) = F32Mul(y, y)
    IN  CASE sy = 0  /\ sx >= 0 -> 0
          [] sy = 0  /\ sx < 0  -> 4
          [] sx = 0  /\ sy > 0  -> 2
          [] sx = 0  /\ sy < 0  -> -2
          [] diag /\ sx > 0 /\ sy > 0 -> 1
          [] diag /\ sx < 0 /\ sy > 0 -> 3
          [] diag /\ sx > 0 /\ sy < 0 -> -1
          [] diag /\ sx < 0 /\ sy < 0 -> -3

\* whether Atan2(y, x) is one of the quarter turns, where Cos and Sin are exact
OnAxis(y, x) == y[1] = 0 \/ x[1] = 0

---------------------------------------------------------------------------
(* Matrix2D                                                                *)

Matrix2D(xx, yx, xy, yy, x0, y0) ==
    [XX |-> xx, YX |-> yx, XY |-> xy, YY |-> yy, X0 |-> x0, Y0 |-> y0]

Identity2D == Matrix2D(One, Zero, Zero, One, Zero, Zero)

Translate2D(x, y) == Matrix2D(One, Zero, Zero, One, x, y)

Scale2D(x, y) == Matrix2D(x, Zero, Zero, y, Zero, Zero)

Rotate2D(angle) ==
    LET c == Cos(angle)
        s == Sin(angle)
    IN  Matrix2D(c, s, F32Neg(s), c, Zero, Zero)

Shear2D(x, y) == Matrix2D(One, y, x, One, Zero, Zero)

Skew2D(x, y) == Matrix2D(One, Tan(y), Tan(x), One, Zero, Zero)

\* Multiply with the operands exchanged: b's map applied first
MultiplySwapped(p, q) ==
    Matrix2D(F32Add(F32Mul(q.XX, p.XX), F32Mul(q.YX, p.XY)),
             F32Add(F32Mul(q.XX, p.YX), F32Mul(q.YX, p.YY)),
             F32Add(F32Mul(q.XY, p.XX), F32Mul(q.YY, p.XY)),
             F32Add(F32Mul(q.XY, p.YX), F32Mul(q.YY, p.YY)),
             F32Add(F32Add(F32Mul(q.X0, p.XX), F32Mul(q.Y0, p.XY)), p.X0),
             F32Add(F32Add(F32Mul(q.X0, p.YX), F32Mul(q.Y0, p.YY)), p.Y0))

\* Multiply without b's translation in the last column
MultiplyDropsOffset(p, q) ==
    Matrix2D(F32Add(F32Mul(p.XX, q.XX), F32Mul(p.YX, q.XY)),
             F32Add(F32Mul(p.XX, q.YX), F32Mul(p.YX, q.YY)),
             F32Add(F32Mul(p.XY, q.XX), F32Mul(p.YY, q.XY)),
             F32Add(F32Mul(p.XY, q.YX), F32Mul(p.YY, q.YY)),
             F32Add(F32Mul(p.X0, q.XX), F32Mul(p.Y0, q.XY)),
             F32Add(F32Mul(p.X0, q.YX), F32Mul(p.Y0, q.YY)))

\* Multiply with b's XY in the place of its YY in the second entry
MultiplyMixesEntries(p, q) ==
    Matrix2D(F32Add(F32Mul(p.XX, q.XX), F32Mul(p.YX, q.XY)),
             F32Add(F32Mul(p.XX, q.YX), F32Mul(p.YX, q.XY)),
             F32Add(F32Mul(p.XY, q.XX), F32Mul(p.YY, q.XY)),
             F32Add(F32Mul(p.XY, q.YX), F32Mul(p.YY, q.YY)),
             F32Add(F32Add(F32Mul(p.X0, q.XX), F32Mul(p.Y0, q.XY)), q.X0),
             F32Add(F32Add(F32Mul(p.X0, q.YX), F32Mul(p.Y0, q.YY)), q.Y0))

Multiply(p, q) ==
    Matrix2D(F32Add(F32Mul(p.XX, q.XX), F32Mul(p.YX, q.XY)),
             F32Add(F32Mul(p.XX, q.YX), F32Mul(p.YX, q.YY)),
             F32Add(F32Mul(p.XY, q.XX), F32Mul(p.YY, q.XY)),
             F32Add(F32Mul(p.XY, q.YX), F32Mul(p.YY, q.YY)),
             F32Add(F32Add(F32Mul(p.X0, q.XX), F32Mul(p.Y0, q.XY)), q.X0),
             F32Add(F32Add(F32Mul(p.X0, q.YX), F32Mul(p.Y0, q.YY)), q.Y0))

\* the pair (tx, ty)
TransformVector(p, x, y) ==
    <<F32Add(F32Mul(p.XX, x), F32Mul(p.XY, y)),
      F32Add(F32Mul(p.YX, x), F32Mul(p.YY, y))>>

TransformPoint(p, x, y) ==
    <<F32Add(F32Add(F32Mul(p.XX, x), F32Mul(p.XY, y)), p.X0),
      F32Add(F32Add(F32Mul(p.YX, x), F32Mul(p.YY, y)), p.Y0)>>

\* Translate as an append: the translation applied after p's map
TranslateAppend(p, x, y) == Multiply(p, Translate2D(x, y))

Translate(p, x, y) == Multiply(Translate2D(x, y), p)

Scale(p, x, y) == Multiply(Scale2D(x, y), p)

\* Rotate as an append: the rotation applied after p's map
RotateAppend(p, angle) == Multiply(p, Rotate2D(angle))

Rotate(p, angle) == Multiply(Rotate2D(angle), p)

Shear(p, x, y) == Multiply(Shear2D(x, y), p)

Skew(p, x, y) == Multiply(Skew2D(x, y), p)

ExtractRot(p) == Atan2(F32Neg(p.XY), p.XX)

\* the pair (scx, scy)
ExtractScale(p) ==
    LET rot == ExtractRot(p)
        tx  == Rotate(p, -rot)
    IN  <<TransformVector(tx, One, Zero)[1], TransformVector(tx, Zero, One)[2]>>

---------------------------------------------------------------------------
(* Matrix algebra: a caller builds a matrix m from Identity2D() with the   *)
(* prepend methods, multiplies it with a second matrix, and decomposes it. *)

\* the number of operations applied to one matrix
MaxOps == 3

TranslateArgs == {<<F32(1), F32(2)>>, <<F32(-3), F32(0)>>}
ScaleArgs     == {<<F32(2), F32(3)>>, <<F32(2), F32(2)>>, <<F32(-1), F32(1)>>}
RotateArgs    == {2, 4, -2}
ShearArgs     == {<<F32(1), F32(0)>>, <<F32(2), F32(1)>>}
SkewArgs      == {<<1, 0>>, <<-1, 1>>}

\* second operands of Multiply
Operands ==
    {Identity2D, Translate2D(F32(1), F32(2)), Rotate2D(2),
     Multiply(Scale2D(F32(2), F32(3)), Translate2D(F32(-3), F32(0)))}

\* sample points; three of them are not collinear, so two affine maps that
\* agree on all of them are equal
Points == {<<F32(0), F32(0)>>, <<F32(1), F32(0)>>, <<F32(0), F32(1)>>, <<F32(2), F32(-1)>>}

NoExt == [rot |-> 0, sc |-> <<>>]

AlgIdle ==
    /\ m = Identity2D
    /\ prev = Identity2D
    /\ other = Identity2D
    /\ hist = <<>>
    /\ ext = NoExt

AlgInit ==
    /\ m = Identity2D
    /\ prev = Identity2D
    /\ other \in Operands
    /\ hist = <<>>
    /\ ext = NoExt

\* m = <op>(m, args): the bookkeeping shared by the operations on m
Apply(name, args, result) ==
    /\ Len(hist) < MaxOps
    /\ m' = result
    /\ prev' = m
    /\ hist' = Append(hist, [op |-> name, args |-> args])
    /\ ext' = NoExt
    /\ UNCHANGED <<other, rpVars, ssVars, rectVars, paVars, ccVars, dlgVars, mvVars>>

DoTranslate(x, y) == Apply("Translate", <<x, y>>, Translate(m, x, y))

DoScale(x, y) == Apply("Scale", <<x, y>>, Scale(m, x, y))

DoRotate(angle) == Apply("Rotate", <<angle>>, Rotate(m, angle))

DoShear(x, y) == Apply("Shear", <<x, y>>, Shear(m, x, y))

DoSkew(x, y) == Apply("Skew", <<x, y>>, Skew(m, x, y))

\* m = m.Multiply(other)
DoMultiply == Apply("Multiply", <<>>, Multiply(m, other))

\* m = other.Multiply(m)
DoMultiplyBy == Apply("MultiplyBy", <<>>, Multiply(other, m))

\* rot := m.ExtractRot(); scx, scy := m.ExtractScale()
DoExtract ==
    /\ ext = NoExt
    /\ OnAxis(F32Neg(m.XY), m.XX)
    /\ ext' = [rot |-> ExtractRot(m), sc |-> ExtractScale(m)]
    /\ UNCHANGED <<m, prev, other, hist, rpVars, ssVars, rectVars, paVars, ccVars, dlgVars, mvVars>>

AlgNext ==
    \/ \E t \in TranslateArgs : DoTranslate(t[1], t[2])
    \/ \E t \in ScaleArgs : DoScale(t[1], t[2])
    \/ \E k \in RotateArgs : DoRotate(k)
    \/ \E t \in ShearArgs : DoShear(t[1], t[2])
    \/ \E t \in SkewArgs : DoSkew(t[1], t[2])
    \/ DoMultiply
    \/ DoMultiplyBy
    \/ DoExtract

---------------------------------------------------------------------------
(* ParseFloat32 and ReadPoints                                             *)

Digits == <<"0", "1", "2", "3", "4", "5", "6", "7", "8", "9">>

\* unicode.IsNumber on the characters of the model's alphabets
IsNumber(r) == \E i \in 1..Len(Digits) : Digits[i] = r

DigitVal(r) == (CHOOSE i \in 1..Len(Digits) : Digits[i] = r) - 1

IsDigits(s) == \A i \in 1..Len(s) : IsNumber(s[i])

\* the natural number written by a sequence of digits (0 for the empty one)
RECURSIVE DigitsVal(_)
DigitsVal(s) ==
    IF s = <<>> THEN 0
    ELSE 10 * DigitsVal(SubSeq(s, 1, Len(s) - 1)) + DigitVal(s[Len(s)])

\* s without its leading zeros
RECURSIVE StripZeros(_)
StripZeros(s) == IF s # <<>> /\ Head(s) = "0" THEN StripZeros(Tail(s)) ELSE s

\* the position of the first element of s that is in set, 0 if there is none
IndexAny(s, set) ==
    IF \E i \in 1..Len(s) : s[i] \in set
    THEN CHOOSE i \in 1..Len(s) : s[i] \in set /\ \A j \in 1..(i - 1) : s[j] \notin set
    ELSE 0

\* strconv.ParseFloat(s, 32) on decimal input: [v |-> the float32, err |-> failed].
\* Syntax: [+-] digits [. digits] [(e|E) [+-] digits], at least one mantissa
\* digit.  A value of 3.4028236e38 or more is a range error; a value under
\* 1e-46 is 0.  (Values between 1e-46 and 1e-38, where a float32 has lost
\* precision, have no arm here.)
StrconvParseFloat(s) ==
    LET signed == s # <<>> /\ s[1] \in {"+", "-"}
        body   == IF signed THEN Tail(s) ELSE s
        epos   == IndexAny(body, {"e", "E"})
        mant   == IF epos = 0 THEN body ELSE SubSeq(body, 1, epos - 1)
        expo   == IF epos = 0 THEN <<>> ELSE SubSeq(body, epos + 1, Len(body))
        esign  == expo # <<>> /\ expo[1] \in {"+", "-"}
        edig   == IF esign THEN Tail(expo) ELSE expo
        dot    == IndexAny(mant, {"."})
        ipart  == IF dot = 0 THEN mant ELSE SubSeq(mant, 1, dot - 1)
        fpart  == IF dot = 0 THEN <<>> ELSE SubSeq(mant, dot + 1, Len(mant))
        syntax == /\ IsDigits(ipart) /\ IsDigits(fpart)
                  /\ Len(ipart) + Len(fpart) > 0
                  /\ epos # 0 => (edig # <<>> /\ IsDigits(edig))
        sig    == StripZeros(ipart \o fpart)
        mval   == DigitsVal(sig)
        eval   == (IF esign /\ expo[1] = "-" THEN -1 ELSE 1) * DigitsVal(edig)
                      - Len(fpart)
        mag    == Len(sig) + eval
        neg    == signed /\ s[1] = "-"
        val    == F32Norm(IF neg THEN -mval ELSE mval, eval)
    IN  IF ~syntax THEN [v |-> Zero, err |-> TRUE]
        ELSE CASE mval = 0 -> [v |-> Zero, err |-> FALSE]
               [] mval # 0 /\ mag > 39 -> [v |-> Zero, err |-> TRUE]
               [] mval # 0 /\ mag = 39 ->
                     IF mval * Pow10(8 - Len(sig)) >= 34028236
                     THEN [v |-> Zero, err |-> TRUE]
                     ELSE [v |-> val, err |-> FALSE]
               [] mval # 0 /\ mag < 39 /\ mag > -38 -> [v |-> val, err |-> FALSE]
               [] mval # 0 /\ mag < -45 -> [v |-> Zero, err |-> FALSE]

ParseFloat32(s) ==
    LET r == StrconvParseFloat(s)
    IN  IF r.err THEN [v |-> Zero, err |-> TRUE] ELSE [v |-> r.v, err |-> FALSE]

\* pstr[lo:hi] with Go's 0-based bounds
Slice(s, lo, hi) == SubSeq(s, lo + 1, hi)

\* whether the character r ends a token
EndsToken(r, lr) ==
    ~IsNumber(r) /\ r # "." /\ ~(r = "-" /\ lr = "e") /\ r # "e"

\* a '-' treated like any other delimiter
NextLastIdxNone(r, i) == -1

\* lastIdx after a character that ends a token
NextLastIdx(r, i) == IF r = "-" THEN i ELSE -1

\* no flush after the loop
ReadPointsFlushNone(s, lastIdx, acc) == acc

\* a flush that keeps the values read so far when the last token fails
ReadPointsFlushPartial(s, lastIdx, acc) ==
    IF lastIdx # -1 /\ lastIdx # Len(s)
    THEN LET r == ParseFloat32(Slice(s, lastIdx, Len(s)))
         IN  IF r.err THEN acc ELSE Append(acc, r.v)
    ELSE acc

\* after the loop: the token that reaches the end of the string
ReadPointsFlush(s, lastIdx, acc) ==
    IF lastIdx # -1 /\ lastIdx # Len(s)
    THEN LET r == ParseFloat32(Slice(s, lastIdx, Len(s)))
         IN  IF r.err THEN <<>> ELSE Append(acc, r.v)
    ELSE acc

\* the loop over the characters, from index i (0-based) on; nil is <<>>
RECURSIVE ReadPointsLoop(_, _, _, _, _)
ReadPointsLoop(s, i, lastIdx, acc, lr) ==
    IF i >= Len(s) THEN ReadPointsFlush(s, lastIdx, acc)
    ELSE LET r == s[i + 1]
         IN  IF EndsToken(r, lr)
             THEN IF lastIdx # -1
                  THEN LET f == ParseFloat32(Slice(s, lastIdx, i))
                       IN  IF f.err THEN <<>>
                           ELSE ReadPointsLoop(s, i + 1, NextLastIdx(r, i),
                                               Append(acc, f.v), r)
                  ELSE ReadPointsLoop(s, i + 1, NextLastIdx(r, i), acc, r)
             ELSE IF lastIdx = -1
                  THEN ReadPointsLoop(s, i + 1, i, acc, r)
                  ELSE ReadPointsLoop(s, i + 1, lastIdx, acc, r)

ReadPoints(s) == ReadPointsLoop(s, 0, -1, <<>>, " ")

\* a caller scanning a number string
MaxLen == 5

Alphabet == {"1", "2", ".", "-", "e", "E", ",", " "}

\* "1-2", "1,2,-3", "1e-5 2E3", "abc"
RPExamples ==
    {<<"1", "-", "2">>,
     <<"1", ",", "2", ",", "-", "3">>,
     <<"1", "e", "-", "5", " ", "2", "E", "3">>,
     <<"a", "b", "c">>}

RPIdle == pstr = <<>> /\ pts = <<>> /\ rpc = "in"

RPInit == pstr \in ({<<>>} \cup RPExamples) /\ pts = <<>> /\ rpc = "in"

RPAppend(c) ==
    /\ rpc = "in"
    /\ Len(pstr) < MaxLen
    /\ pstr' = Append(pstr, c)
    /\ UNCHANGED <<pts, rpc, algVars, ssVars, rectVars, paVars, ccVars, dlgVars, mvVars>>

\* pts := ReadPoints(pstr)
RPCall ==
    /\ rpc = "in"
    /\ pts' = ReadPoints(pstr)
    /\ rpc' = "ret"
    /\ UNCHANGED <<pstr, algVars, ssVars, rectVars, paVars, ccVars, dlgVars, mvVars>>

RPNext ==
    \/ \E c \in Alphabet : RPAppend(c)
    \/ RPCall

---------------------------------------------------------------------------
(* the functions of package strings that SetString uses                    *)

Upper == <<"A", "B", "C", "D", "E", "F", "G", "H", "I", "J", "K", "L", "M",
           "N", "O", "P", "Q", "R", "S", "T", "U", "V", "W", "X", "Y", "Z">>
Lower == <<"a", "b", "c", "d", "e", "f", "g", "h", "i", "j", "k", "l", "m",
           "n", "o", "p", "q", "r", "s", "t", "u", "v", "w", "x", "y", "z">>

ToLowerCh(c) ==
    IF \E j \in 1..Len(Upper) : Upper[j] = c
    THEN Lower[CHOOSE j \in 1..Len(Upper) : Upper[j] = c]
    ELSE c

\* the string left in the case it was written in
ToLowerKeep(s) == s

\* strings.ToLower
ToLower(s) == [i \in 1..Len(s) |-> ToLowerCh(s[i])]

IsSpace(c) == c \in {" ", "\t", "\n", "\r"}

RECURSIVE TrimLeft(_)
TrimLeft(s) == IF s # <<>> /\ IsSpace(Head(s)) THEN TrimLeft(Tail(s)) ELSE s

RECURSIVE TrimRight(_)
TrimRight(s) ==
    IF s # <<>> /\ IsSpace(s[Len(s)]) THEN TrimRight(SubSeq(s, 1, Len(s) - 1)) ELSE s

\* strings.TrimSpace
TrimSpace(s) == TrimRight(TrimLeft(s))

\* strings.IndexByte: the 0-based index of the first c in s, -1 if there is none
IndexByte(s, c) == IndexAny(s, {c}) - 1

\* strings.HasPrefix
HasPrefix(s, pre) == Len(s) >= Len(pre) /\ SubSeq(s, 1, Len(pre)) = pre

\* strings.TrimPrefix
TrimPrefix(s, pre) == IF HasPrefix(s, pre) THEN SubSeq(s, Len(pre) + 1, Len(s)) ELSE s

\* strings.Contains
Contains(s, sub) ==
    \E i \in 0..(Len(s) - Len(sub)) : SubSeq(s, i + 1, i + Len(sub)) = sub

---------------------------------------------------------------------------
(* Matrix2D.SetString                                                      *)

\* the command names of the switch, and the names a caller writes, as strings
NameText(name) ==
    CASE name = "none"       -> <<"n", "o", "n", "e">>
      [] name = "matrix"     -> <<"m", "a", "t", "r", "i", "x">>
      [] name = "translate"  -> <<"t", "r", "a", "n", "s", "l", "a", "t", "e">>
      [] name = "translatex" -> <<"t", "r", "a", "n", "s", "l", "a", "t", "e", "x">>
      [] name = "translatey" -> <<"t", "r", "a", "n", "s", "l", "a", "t", "e", "y">>
      [] name = "scale"      -> <<"s", "c", "a", "l", "e">>
      [] name = "scalex"     -> <<"s", "c", "a", "l", "e", "x">>
      [] name = "scaley"     -> <<"s", "c", "a", "l", "e", "y">>
      [] name = "rotate"     -> <<"r", "o", "t", "a", "t", "e">>
      [] name = "skew"       -> <<"s", "k", "e", "w">>
      [] name = "skewx"      -> <<"s", "k", "e", "w", "x">>
      [] name = "skewy"      -> <<"s", "k", "e", "w", "y">>
      [] name = "foo"        -> <<"f", "o", "o">>
      [] name = "TRANSLATE"  -> <<"T", "R", "A", "N", "S", "L", "A", "T", "E">>
      [] name = "translate " -> <<"t", "r", "a", "n", "s", "l", "a", "t", "e", " ">>

\* a check that lets a list with too many points pass
PointsCheckNAtLeast(p, n) == Len(p) < n

\* PointsCheckN(pts, n, errmsg) != nil
PointsCheckN(p, n) == Len(p) # n

\* pts[0] * math32.Pi / 180, as an angle in units of pi/4: whole multiples of
\* 45 degrees
MulPiOver180(d) ==
    CASE d[2] >= 0 /\ (d[1] * Pow10(d[2])) % 45 = 0 -> (d[1] * Pow10(d[2])) \div 45

\* a float32 number of radians as an angle in units of pi/4: only 0 is one
Radians(d) == CASE d = Zero -> 0

\* the switch on cmd: [a |-> the receiver after it, out |-> "next" when control
\* reaches the end of the switch, "error" when it returns an error, "panic"
\* when pts[0] is read from an empty slice]
Dispatch(recv, cmd, p) ==
    LET fail == [a |-> recv, out |-> "error"]
        go(x) == [a |-> x, out |-> "next"]
    IN  CASE cmd = NameText("matrix") ->
               IF PointsCheckN(p, 6) THEN fail
               ELSE go(Matrix2D(p[1], p[2], p[3], p[4], p[5], p[6]))
          [] cmd = NameText("translate") ->
               IF PointsCheckN(p, 2) THEN fail ELSE go(Translate(recv, p[1], p[2]))
          [] cmd = NameText("translatex") ->
               IF PointsCheckN(p, 1) THEN fail ELSE go(Translate(recv, p[1], Zero))
          [] cmd = NameText("translatey") ->
               IF PointsCheckN(p, 1) THEN fail ELSE go(Translate(recv, Zero, p[1]))
          [] cmd = NameText("scale") ->
               IF Len(p) = 1 THEN go(Scale(recv, p[1], p[1]))
               ELSE IF Len(p) = 2 THEN go(Scale(recv, p[1], p[2]))
               ELSE go(recv)
          [] cmd = NameText("scalex") ->
               IF PointsCheckN(p, 1) THEN fail ELSE go(Scale(recv, p[1], One))
          [] cmd = NameText("scaley") ->
               IF PointsCheckN(p, 1) THEN fail ELSE go(Scale(recv, One, p[1]))
          [] cmd = NameText("rotate") ->
               IF Len(p) = 0 THEN [a |-> recv, out |-> "panic"]
               ELSE LET ang == MulPiOver180(p[1])
                    IN  IF Len(p) = 3
                        THEN go(Translate(Rotate(Translate(recv, p[2], p[3]), ang),
                                          F32Neg(p[2]), F32Neg(p[3])))
                        ELSE IF Len(p) = 1 THEN go(Rotate(recv, ang))
                        ELSE IF PointsCheckN(p, 1) THEN fail ELSE go(recv)
          [] cmd = NameText("skew") ->
               IF PointsCheckN(p, 2) THEN fail
               ELSE go(Skew(recv, Radians(p[1]), Radians(p[2])))
          [] cmd = NameText("skewx") ->
               IF PointsCheckN(p, 1) THEN fail ELSE go(Skew(recv, Radians(p[1]), 0))
          [] cmd = NameText("skewy") ->
               IF PointsCheckN(p, 1) THEN fail ELSE go(Skew(recv, 0, Radians(p[1])))
          [] OTHER -> go(recv)

\* the text after the closing parenthesis with a ';' left in front of it
NextCommandKeepsSemicolon(vals, eidx) == TrimSpace(Slice(vals, eidx + 1, Len(vals)))

\* the text after the closing parenthesis at eidx of vals, without the
\* separator: what the next iteration parses
NextCommand(vals, eidx) ==
    LET nxt == TrimSpace(Slice(vals, eidx + 1, Len(vals)))
    IN  IF HasPrefix(nxt, <<";">>) THEN TrimSpace(TrimPrefix(nxt, <<";">>)) ELSE nxt

---------------------------------------------------------------------------
(* A caller writes a transform string command by command and calls         *)
(* SetString on it.  cmds remembers what each command was written from.    *)

\* the number of commands in one transform string
MaxCmds == 2

\* the decimal text of a natural number
RECURSIVE NatText(_)
NatText(n) ==
    IF n < 10 THEN <<Digits[n + 1]>>
    ELSE NatText(n \div 10) \o <<Digits[(n % 10) + 1]>>

IntText(n) == IF n < 0 THEN <<"-">> \o NatText(-n) ELSE NatText(n)

\* the numbers of vs, separated by commas
RECURSIVE JoinInts(_)
JoinInts(vs) ==
    IF vs = <<>> THEN <<>>
    ELSE IF Len(vs) = 1 THEN IntText(vs[1])
    ELSE IntText(vs[1]) \o <<",">> \o JoinInts(Tail(vs))

\* a command as written: name(v1,...,vn), the closing parenthesis left out
\* when close is FALSE
Cmd(name, vs) == [name |-> name, vals |-> vs, close |-> TRUE]

Unclosed(name, vs) == [name |-> name, vals |-> vs, close |-> FALSE]

CmdText(d) ==
    NameText(d.name) \o <<"(">> \o JoinInts(d.vals)
        \o (IF d.close THEN <<")">> ELSE <<>>)

WellFormedCmds ==
    {Cmd("translate", <<10, 20>>), Cmd("translatex", <<3>>), Cmd("translatey", <<-4>>),
     Cmd("scale", <<2>>), Cmd("scale", <<2, 3>>), Cmd("scalex", <<-1>>),
     Cmd("scaley", <<3>>), Cmd("rotate", <<90>>), Cmd("rotate", <<90, 1, 2>>),
     Cmd("rotate", <<90, 0, 0>>),
     Cmd("skew", <<0, 0>>), Cmd("skewx", <<0>>), Cmd("skewy", <<0>>),
     Cmd("matrix", <<1, 0, 0, 1, 5, 6>>)}

\* commands written with a number of arguments their case of the switch
\* does not accept
BadCountCmds ==
    {Cmd("matrix", <<1, 2>>), Cmd("translate", <<1>>), Cmd("translatex", <<1, 2>>),
     Cmd("translatey", <<>>), Cmd("scale", <<1, 2, 3>>), Cmd("scalex", <<1, 2>>),
     Cmd("scaley", <<1, 2, 3>>), Cmd("rotate", <<>>), Cmd("rotate", <<1, 2>>),
     Cmd("rotate", <<1, 2, 3, 4>>), Cmd("skew", <<0>>), Cmd("skewx", <<0, 0>>),
     Cmd("skewy", <<0, 0>>)}

\* a name the switch does not have, with and without arguments
UnknownCmds == {Cmd("foo", <<1, 2>>), Cmd("foo", <<>>)}

\* a command without its closing parenthesis
UnclosedCmds == {Unclosed("translate", <<1, 2>>)}

\* translate(10,20) written in upper case, and with a space before its '('
SpelledCmds == {Cmd("TRANSLATE", <<10, 20>>), Cmd("translate ", <<10, 20>>)}

MalformedCmds == BadCountCmds \cup UnknownCmds \cup UnclosedCmds \cup SpelledCmds

Cmds == WellFormedCmds \cup MalformedCmds

\* what is written between two commands
Seps == {<<" ">>, <<";">>}

\* "none", " NONE ", "None\n"
NoneTexts ==
    {<<"n", "o", "n", "e">>,
     <<" ", "N", "O", "N", "E", " ">>,
     <<"N", "o", "n", "e", "\n">>}

\* a receiver is a zero Matrix2D{} or holds an earlier transform
Receivers ==
    {Matrix2D(Zero, Zero, Zero, Zero, Zero, Zero), Translate2D(F32(5), F32(6))}

SSIdle ==
    /\ a = Identity2D /\ a0 = Identity2D
    /\ cmds = <<>> /\ input = <<>> /\ str = <<>>
    /\ pc = "write" /\ err = "nil"

SSInit ==
    /\ a \in Receivers /\ a0 = a
    /\ cmds = <<>> /\ input = <<>> /\ str = <<>>
    /\ pc = "write" /\ err = "nil"

\* the written command c is one of the well-formed ones
IsWellFormed(c) == c.close /\ Cmd(c.name, c.vals) \in WellFormedCmds

\* the caller appends the command d, after the separator sep; a string has at
\* most one malformed command
SSWrite(d, sep) ==
    /\ pc = "write"
    /\ Len(cmds) < MaxCmds
    /\ d \in MalformedCmds => \A i \in 1..Len(cmds) : IsWellFormed(cmds[i])
    /\ (input = <<>>) = (cmds = <<>>)
    /\ cmds # <<>> => cmds[Len(cmds)].sep = sep
    /\ cmds' = Append(cmds, [name |-> d.name, vals |-> d.vals, close |-> d.close,
                             sep |-> sep])
    /\ input' = IF cmds = <<>> THEN CmdText(d) ELSE input \o sep \o CmdText(d)
    /\ UNCHANGED <<a, a0, str, pc, err, algVars, rpVars, rectVars, paVars, ccVars, dlgVars, mvVars>>

\* the caller writes the literal t instead of commands
SSWriteNone(t) ==
    /\ pc = "write"
    /\ input = <<>> /\ cmds = <<>>
    /\ input' = t
    /\ UNCHANGED <<a, a0, cmds, str, pc, err, algVars, rpVars, rectVars, paVars, ccVars, dlgVars, mvVars>>

\* SetString up to the loop: lines 815-819, for the argument s
SetStringEnter(s) ==
    LET t == ToLower(TrimSpace(s))
    IN  [a |-> Identity2D, str |-> t, err |-> "nil",
         pc |-> IF t = NameText("none") THEN "ret" ELSE "loop"]

\* an iteration that goes on with the text it started from
IterEndKeepsText(r, s, nxt) ==
    IF r.out # "next"
    THEN [a |-> r.a, str |-> s, err |-> r.out, pc |-> "ret"]
    ELSE IF nxt = <<>> \/ ~Contains(nxt, <<"(">>)
    THEN [a |-> r.a, str |-> s, err |-> "nil", pc |-> "ret"]
    ELSE [a |-> r.a, str |-> s, err |-> "nil", pc |-> "loop"]

\* the end of an iteration (lines 914-920) whose switch gave r, with s the
\* text the iteration started from and nxt the text after its command
IterEnd(r, s, nxt) ==
    IF r.out # "next"
    THEN [a |-> r.a, str |-> s, err |-> r.out, pc |-> "ret"]
    ELSE IF nxt = <<>> \/ ~Contains(nxt, <<"(">>)
    THEN [a |-> r.a, str |-> s, err |-> "nil", pc |-> "ret"]
    ELSE [a |-> r.a, str |-> nxt, err |-> "nil", pc |-> "loop"]

\* the iteration from line 828 on, with pidx the index of the '(' in s
IterCommand(recv, s, pidx, eidx) ==
    IterEnd(Dispatch(recv, Slice(s, 0, pidx),
                     ReadPoints(IF eidx > 0 THEN Slice(s, pidx + 1, pidx + 1 + eidx)
                                ELSE Slice(s, pidx + 1, Len(s)))),
            s,
            IF eidx > 0 THEN NextCommand(Slice(s, pidx + 1, Len(s)), eidx) ELSE <<>>)

\* one iteration of the loop over the commands, for the receiver recv and the
\* remaining text s: the receiver, the remaining text, the error and whether
\* the loop goes on ("loop") or SetString returns ("ret")
SetStringIter(recv, s) ==
    IF IndexByte(s, "(") < 0
    THEN [a |-> recv, str |-> s, err |-> "error", pc |-> "ret"]
    ELSE IterCommand(recv, s, IndexByte(s, "("),
                     IndexByte(Slice(s, IndexByte(s, "(") + 1, Len(s)), ")"))

\* a.SetString(input), up to the loop
SetStringCall ==
    /\ pc = "write"
    /\ \E r \in {SetStringEnter(input)} :
           /\ str' = r.str
           /\ a0' = a
           /\ a' = r.a
           /\ pc' = r.pc
           /\ err' = r.err
    /\ UNCHANGED <<cmds, input, algVars, rpVars, rectVars, paVars, ccVars, dlgVars, mvVars>>

\* one iteration of the loop over the commands
SetStringStep ==
    /\ pc = "loop"
    /\ \E r \in {SetStringIter(a, str)} :
           /\ a' = r.a
           /\ str' = r.str
           /\ pc' = r.pc
           /\ err' = r.err
    /\ UNCHANGED <<a0, cmds, input, algVars, rpVars, rectVars, paVars, ccVars, dlgVars, mvVars>>

SSNext ==
    \/ \E d \in Cmds, sep \in Seps : SSWrite(d, sep)
    \/ \E t \in NoneTexts : SSWriteNone(t)
    \/ SetStringCall
    \/ SetStringStep

---------------------------------------------------------------------------
(* Vec2D.ToPointFloor / ToPointCeil, RectFromPosSizeMax / RectFromPosSizeMin *)

Vec2D(x, y) == [X |-> x, Y |-> y]

\* image.Point
Point(x, y) == [X |-> x, Y |-> y]

\* int(math32.Floor(x))
Floor(x) == IF x[2] >= 0 THEN x[1] * Pow10(x[2]) ELSE x[1] \div Pow10(-x[2])

\* a ceiling that rounds down
CeilRoundsDown(x) == IF x[2] >= 0 THEN x[1] * Pow10(x[2]) ELSE x[1] \div Pow10(-x[2])

\* int(math32.Ceil(x))
Ceil(x) == -Floor(F32Neg(x))

ToPointCeil(v) == Point(Ceil(v.X), Ceil(v.Y))

ToPointFloor(v) == Point(Floor(v.X), Floor(v.Y))

\* image.Rect: the rectangle with the given corners, its Min not above its Max
Rect(x0, y0, x1, y1) ==
    [Min |-> Point(IF x0 > x1 THEN x1 ELSE x0, IF y0 > y1 THEN y1 ELSE y0),
     Max |-> Point(IF x0 > x1 THEN x0 ELSE x1, IF y0 > y1 THEN y0 ELSE y1)]

RectFromPosSizeMax(pos, sz) ==
    LET tp == ToPointFloor(pos)
        ts == ToPointCeil(sz)
    IN  Rect(tp.X, tp.Y, tp.X + ts.X, tp.Y + ts.Y)

RectFromPosSizeMin(pos, sz) ==
    LET tp == ToPointCeil(pos)
        ts == ToPointFloor(sz)
    IN  Rect(tp.X, tp.Y, tp.X + ts.X, tp.Y + ts.Y)

\* a caller computing the two pixel rectangles of one (pos, sz)

\* coordinates and sizes are the multiples of 1/2 from -MaxCoord to MaxCoord
MaxCoord == 1

Coords == {F32Norm(5 * k, -1) : k \in (-2 * MaxCoord)..(2 * MaxCoord)}

\* pos = (1.2, 1.8), sz = (3.3, 2.1)
RectExamples == {<<F32Norm(12, -1), F32Norm(18, -1), F32Norm(33, -1), F32Norm(21, -1)>>}

\* no rectangle yet: a value image.Rect never returns (its Max is below its Min)
NoRect == [Min |-> Point(0, 0), Max |-> Point(-1, -1)]

RectIdle ==
    /\ rpos = Vec2D(Zero, Zero) /\ rsz = Vec2D(Zero, Zero)
    /\ rmax = NoRect /\ rmin = NoRect
    /\ rectpc = "in"

RectInit == RectIdle

\* the caller picks pos and sz
RectChoose(px, py, sx, sy) ==
    /\ rectpc = "in"
    /\ rpos' = Vec2D(px, py)
    /\ rsz' = Vec2D(sx, sy)
    /\ rectpc' = "call"
    /\ UNCHANGED <<rmax, rmin, algVars, rpVars, ssVars, paVars, ccVars, dlgVars, mvVars>>

\* rmax = RectFromPosSizeMax(rpos, rsz)
RectMaxCall ==
    /\ rectpc = "call"
    /\ rmax = NoRect
    /\ rmax' = RectFromPosSizeMax(rpos, rsz)
    /\ UNCHANGED <<rpos, rsz, rmin, rectpc, algVars, rpVars, ssVars, paVars, ccVars, dlgVars, mvVars>>

\* rmin = RectFromPosSizeMin(rpos, rsz)
RectMinCall ==
    /\ rectpc = "call"
    /\ rmin = NoRect
    /\ rmin' = RectFromPosSizeMin(rpos, rsz)
    /\ UNCHANGED <<rpos, rsz, rmax, rectpc, algVars, rpVars, ssVars, paVars, ccVars, dlgVars, mvVars>>

RectNext ==
    \/ \E px \in Coords, py \in Coords, sx \in Coords, sy \in Coords :
           RectChoose(px, py, sx, sy)
    \/ \E e \in RectExamples : RectChoose(e[1], e[2], e[3], e[4])
    \/ RectMaxCall
    \/ RectMinCall

---------------------------------------------------------------------------
(* ParseAngle32                                                            *)

\* strings.HasSuffix
HasSuffix(s, suf) ==
    Len(s) >= Len(suf) /\ SubSeq(s, Len(s) - Len(suf) + 1, Len(s)) = suf

\* a TrimSuffix that removes nothing
TrimSuffixKeeps(s, suf) == s

\* strings.TrimSuffix
TrimSuffix(s, suf) == IF HasSuffix(s, suf) THEN SubSeq(s, 1, Len(s) - Len(suf)) ELSE s

Deg  == <<"d", "e", "g">>
Grad == <<"g", "r", "a", "d">>
Rad  == <<"r", "a", "d">>

\* float32(r) * math32.Pi / 200, as an angle in units of pi/4: whole multiples
\* of 50 grad
MulPiOver200(d) ==
    CASE d[2] >= 0 /\ (d[1] * Pow10(d[2])) % 50 = 0 -> (d[1] * Pow10(d[2])) \div 50

\* an angle in radians: pi4 * pi/4 + num
Angle(pi4, num) == [pi4 |-> pi4, num |-> num]

\* [v |-> the radians, err |-> failed]
ParseAngle32(s) ==
    LET l0    == ToLower(s)
        units == IF Contains(l0, Deg) THEN "deg"
                 ELSE IF Contains(l0, Grad) THEN "grad"
                 ELSE IF Contains(l0, Rad) THEN "rad"
                 ELSE "deg"
        lstr  == IF Contains(l0, Deg) THEN TrimSuffix(l0, Deg)
                 ELSE IF Contains(l0, Grad) THEN TrimSuffix(l0, Grad)
                 ELSE IF Contains(l0, Rad) THEN TrimSuffix(l0, Rad)
                 ELSE l0
        r     == StrconvParseFloat(lstr)
    IN  IF r.err THEN [v |-> Angle(0, Zero), err |-> TRUE]
        ELSE CASE units = "deg"  -> [v |-> Angle(MulPiOver180(r.v), Zero), err |-> FALSE]
               [] units = "grad" -> [v |-> Angle(MulPiOver200(r.v), Zero), err |-> FALSE]
               [] units = "rad"  -> [v |-> Angle(0, r.v), err |-> FALSE]

\* a caller parsing an angle written as a number followed by a unit

\* angles run from -MaxAngle to MaxAngle eighths of a turn (in degrees and in
\* grad), and from -MaxAngle to MaxAngle radians
MaxAngle == 4

AngleSteps == (-MaxAngle)..MaxAngle

\* the unit as written, and the unit it stands for
UnitTexts ==
    {[text |-> <<>>, unit |-> "deg"],
     [text |-> <<"d", "e", "g">>, unit |-> "deg"],
     [text |-> <<"D", "E", "G">>, unit |-> "deg"],
     [text |-> <<"D", "e", "g">>, unit |-> "deg"],
     [text |-> <<"g", "r", "a", "d">>, unit |-> "grad"],
     [text |-> <<"G", "R", "A", "D">>, unit |-> "grad"],
     [text |-> <<"r", "a", "d">>, unit |-> "rad"],
     [text |-> <<"R", "a", "d">>, unit |-> "rad"]}

\* how many of a unit make an eighth of a turn; radians are counted one by one
UnitStep(unit) ==
    CASE unit = "deg" -> 45
      [] unit = "grad" -> 50
      [] unit = "rad" -> 1

\* texts that are not numbers: "", "x", "4 5", "1..2", "45 "
JunkTexts ==
    {<<>>, <<"x">>, <<"4", " ", "5">>, <<"1", ".", ".", "2">>, <<"4", "5", " ">>}

NoAngle == [v |-> Angle(0, Zero), err |-> FALSE]

PAIdle ==
    /\ apstr = <<>>
    /\ aparts = [valid |-> FALSE, n |-> 0, unit |-> "deg"]
    /\ ares = NoAngle
    /\ apc = "in"

PAInit == PAIdle

\* the caller writes the number k * UnitStep(u.unit) followed by the unit u
PAWrite(k, u) ==
    /\ apc = "in"
    /\ apstr' = IntText(k * UnitStep(u.unit)) \o u.text
    /\ aparts' = [valid |-> TRUE, n |-> k * UnitStep(u.unit), unit |-> u.unit]
    /\ apc' = "call"
    /\ UNCHANGED <<ares, algVars, rpVars, ssVars, rectVars, ccVars, dlgVars, mvVars>>

\* the caller writes something that is not a number, followed by the unit u
PAWriteJunk(t, u) ==
    /\ apc = "in"
    /\ apstr' = t \o u.text
    /\ aparts' = [valid |-> FALSE, n |-> 0, unit |-> u.unit]
    /\ apc' = "call"
    /\ UNCHANGED <<ares, algVars, rpVars, ssVars, rectVars, ccVars, dlgVars, mvVars>>

\* ares = ParseAngle32(apstr)
PACall ==
    /\ apc = "call"
    /\ ares' = ParseAngle32(apstr)
    /\ apc' = "ret"
    /\ UNCHANGED <<apstr, aparts, algVars, rpVars, ssVars, rectVars, ccVars, dlgVars, mvVars>>

PANext ==
    \/ \E k \in AngleSteps, u \in UnitTexts : PAWrite(k, u)
    \/ \E t \in JunkTexts, u \in UnitTexts : PAWriteJunk(t, u)
    \/ PACall

---------------------------------------------------------------------------
(* SetString as a whole call, and goroutines calling it side by side       *)

\* the loop run to its return: the receiver and the error
RECURSIVE SetStringLoop(_, _)
SetStringLoop(recv, s) ==
    LET r == SetStringIter(recv, s)
    IN  IF r.pc = "ret" THEN [a |-> r.a, err |-> r.err] ELSE SetStringLoop(r.a, r.str)

\* a.SetString(s) run from call to return with nothing else running
SetStringRun(s) ==
    LET e == SetStringEnter(s)
    IN  IF e.pc = "ret" THEN [a |-> e.a, err |-> e.err] ELSE SetStringLoop(e.a, e.str)

Callers == {"g1", "g2"}

\* what the goroutines' strings are written from
CallerCmds == {Cmd("translate", <<10, 20>>), Cmd("rotate", <<90>>), Cmd("translate", <<1>>)}

\* the number of commands written in s
NumCmds(s) == Cardinality({k \in 1..Len(s) : s[k] = "("})

CCIdle ==
    /\ cin = [i \in Callers |-> <<>>]
    /\ c0 = [i \in Callers |-> Identity2D]
    /\ ca = [i \in Callers |-> Identity2D]
    /\ cstr = [i \in Callers |-> <<>>]
    /\ cpc = [i \in Callers |-> "write"]
    /\ cerr = [i \in Callers |-> "nil"]

\* each goroutine has a receiver of its own
CCInit ==
    /\ cin = [i \in Callers |-> <<>>]
    /\ c0 \in [Callers -> Receivers]
    /\ ca = c0
    /\ cstr = [i \in Callers |-> <<>>]
    /\ cpc = [i \in Callers |-> "write"]
    /\ cerr = [i \in Callers |-> "nil"]

\* goroutine i appends the command d to its argument string
CallerWrite(i, d) ==
    /\ cpc[i] = "write"
    /\ cin[i] # NameText("none")
    /\ NumCmds(cin[i]) < MaxCmds
    /\ cin' = [cin EXCEPT ![i] = IF cin[i] = <<>> THEN CmdText(d)
                                 ELSE cin[i] \o <<" ">> \o CmdText(d)]
    /\ UNCHANGED <<c0, ca, cstr, cpc, cerr, algVars, rpVars, ssVars, rectVars, paVars, dlgVars, mvVars>>

\* goroutine i writes "none"
CallerWriteNone(i) ==
    /\ cpc[i] = "write"
    /\ cin[i] = <<>>
    /\ cin' = [cin EXCEPT ![i] = NameText("none")]
    /\ UNCHANGED <<c0, ca, cstr, cpc, cerr, algVars, rpVars, ssVars, rectVars, paVars, dlgVars, mvVars>>

\* goroutine i enters SetString: lines 815-819
CallerCall(i) ==
    /\ cpc[i] = "write"
    /\ cin[i] # <<>>
    /\ \E r \in {SetStringEnter(cin[i])} :
           /\ ca' = [ca EXCEPT ![i] = r.a]
           /\ cstr' = [cstr EXCEPT ![i] = r.str]
           /\ cpc' = [cpc EXCEPT ![i] = r.pc]
           /\ cerr' = [cerr EXCEPT ![i] = r.err]
    /\ UNCHANGED <<cin, c0, algVars, rpVars, ssVars, rectVars, paVars, dlgVars, mvVars>>

\* an iteration that stores the matrix in every goroutine's receiver, as if
\* the accumulator were shared
CallerStepShared(i) ==
    /\ cpc[i] = "loop"
    /\ \E r \in {SetStringIter(ca[i], cstr[i])} :
           /\ ca' = [j \in Callers |-> r.a]
           /\ cstr' = [cstr EXCEPT ![i] = r.str]
           /\ cpc' = [cpc EXCEPT ![i] = r.pc]
           /\ cerr' = [cerr EXCEPT ![i] = r.err]
    /\ UNCHANGED <<cin, c0, algVars, rpVars, ssVars, rectVars, paVars, dlgVars, mvVars>>

\* goroutine i runs one iteration of the loop
CallerStep(i) ==
    /\ cpc[i] = "loop"
    /\ \E r \in {SetStringIter(ca[i], cstr[i])} :
           /\ ca' = [ca EXCEPT ![i] = r.a]
           /\ cstr' = [cstr EXCEPT ![i] = r.str]
           /\ cpc' = [cpc EXCEPT ![i] = r.pc]
           /\ cerr' = [cerr EXCEPT ![i] = r.err]
    /\ UNCHANGED <<cin, c0, algVars, rpVars, ssVars, rectVars, paVars, dlgVars, mvVars>>

CCNext ==
    \E i \in Callers :
        \/ \E d \in CallerCmds : CallerWrite(i, d)
        \/ CallerWriteNone(i)
        \/ CallerCall(i)
        \/ CallerStep(i)

---------------------------------------------------------------------------
(* A caller writes the commands of a transform string with each of the     *)
(* separators the loop strips between two commands, or with none.          *)

\* " ", ";", " ; " and no separator
SepTexts == {<<" ">>, <<";">>, <<" ", ";", " ">>, <<>>}

SepCmds ==
    {Cmd("translate", <<10, 20>>), Cmd("rotate", <<90>>), Cmd("scale", <<2, 3>>),
     Cmd("translate", <<1>>), Cmd("foo", <<1, 2>>)}

SepNext ==
    \/ \E d \in SepCmds, sep \in SepTexts : SSWrite(d, sep)
    \/ SetStringCall
    \/ SetStringStep

---------------------------------------------------------------------------
(* Dialog: a standard dialog (Ok / Cancel buttons) or a ChoiceDialog is     *)
(* opened in a window, whose key chords and button clicks run Accept and   *)
(* Cancel.  DialogSig.Emit calls the connected receiver function before it *)
(* returns.  Close only asks the window to close: the window is gone some  *)
(* time later, and delivers events until then.                             *)

\* DialogState
DialogExists == 0
DialogOpenModal == 1
DialogOpenModeless == 2
DialogAccepted == 3
DialogCanceled == 4

\* the number of signals one dialog run emits
MaxEvents == 3

\* an entry of dlog: the call of a method, with the signal value for Emit
Call(ev, val) == [ev |-> ev, val |-> val]

\* the signal values emitted so far
Emitted(log) == SelectSeq(log, LAMBDA e : e.ev = "Emit")

\* MethViewCallMeth(md, args), on the number of calls made so far
MethViewCallMeth(n) == n + 1

\* a receiver function that calls the method whatever the signal
RecvFuncAnySignal(c, sig, n) == IF c = "none" THEN n ELSE MethViewCallMeth(n)

\* the receiver function connected to the dialog signal of c (the same
\* function on each path of MethViewCall), on the signal sig
RecvFunc(c, sig, n) ==
    IF c = "none" THEN n
    ELSE IF sig = DialogAccepted THEN MethViewCallMeth(n) ELSE n

\* the value Accept and Cancel emit, for dlg.SigVal sv and the new dlg.State st
EmitVal(sv, st) == IF sv >= 0 THEN sv ELSE st

\* dlg.Win after dlg.Close()
Close(w) == IF w \in {"nil", "gone"} THEN w ELSE "closing"

\* Accept that asks for the close before it emits
AcceptClosesFirst(sv) ==
    /\ State' = DialogAccepted
    /\ SigVal' = sv
    /\ dlog' = dlog \o <<Call("Accept", -1), Call("Close", -1),
                         Call("Emit", EmitVal(sv, DialogAccepted))>>
    /\ called' = RecvFunc(conn, EmitVal(sv, DialogAccepted), called)
    /\ Win' = Close(Win)
    /\ UNCHANGED <<choices, md, mvpc, conn>>
    /\ UNCHANGED <<algVars, rpVars, ssVars, rectVars, paVars, ccVars>>

\* dlg.Accept(), with sv the value of dlg.SigVal at the call
Accept(sv) ==
    /\ State' = DialogAccepted
    /\ SigVal' = sv
    /\ dlog' = dlog \o <<Call("Accept", -1), Call("Emit", EmitVal(sv, DialogAccepted)),
                         Call("Close", -1)>>
    /\ called' = RecvFunc(conn, EmitVal(sv, DialogAccepted), called)
    /\ Win' = Close(Win)
    /\ UNCHANGED <<choices, md, mvpc, conn>>
    /\ UNCHANGED <<algVars, rpVars, ssVars, rectVars, paVars, ccVars>>

\* dlg.Cancel(), with sv the value of dlg.SigVal at the call
Cancel(sv) ==
    /\ State' = DialogCanceled
    /\ SigVal' = sv
    /\ dlog' = dlog \o <<Call("Cancel", -1), Call("Emit", EmitVal(sv, DialogCanceled)),
                         Call("Close", -1)>>
    /\ called' = RecvFunc(conn, EmitVal(sv, DialogCanceled), called)
    /\ Win' = Close(Win)
    /\ UNCHANGED <<choices, md, mvpc, conn>>
    /\ UNCHANGED <<algVars, rpVars, ssVars, rectVars, paVars, ccVars>>

\* the window delivers events to the dialog
Delivers == Win \in {"open", "closing"} /\ Len(Emitted(dlog)) < MaxEvents

KeyFuns == {"KeyFunAbort", "KeyFunAccept", "KeyFunNil"}

\* the two key chord handlers Open connects
KeyChord(kf) ==
    /\ Delivers
    /\ CASE kf = "KeyFunAbort" -> Cancel(SigVal)
         [] kf = "KeyFunAccept" -> Accept(SigVal)
         [] OTHER -> UNCHANGED vars

\* a click on the Ok or the Cancel button of a standard dialog
ButtonClicked(b) ==
    /\ Delivers
    /\ choices = <<>>
    /\ IF b = "ok" THEN Accept(SigVal) ELSE Cancel(SigVal)

\* a click on button i of a ChoiceDialog
ChoiceClicked(i) ==
    /\ Delivers
    /\ i \in 1..Len(choices)
    /\ IF choices[i] THEN Cancel(i - 1) ELSE Accept(i - 1)

\* dlg.Close() called by the program
CloseCall ==
    /\ Win = "open"
    /\ Len(dlog) < 3 * MaxEvents
    /\ dlog' = Append(dlog, Call("Close", -1))
    /\ Win' = Close(Win)
    /\ UNCHANGED <<State, SigVal, choices, mvVars>>
    /\ UNCHANGED <<algVars, rpVars, ssVars, rectVars, paVars, ccVars>>

\* the window has closed
WinClosed ==
    /\ Win = "closing"
    /\ Win' = "gone"
    /\ UNCHANGED <<State, SigVal, choices, dlog, mvVars>>
    /\ UNCHANGED <<algVars, rpVars, ssVars, rectVars, paVars, ccVars>>

\* the button lists of the choice dialogs: "Yes", "Cancel" and
\* "Cancel", "Keep", "Discard"
ChoiceLists == {<<FALSE, TRUE>>, <<TRUE, FALSE, FALSE>>}

\* dlg.Open on a modal dialog: [State, Win]; vp is whether a viewport with a
\* window was found
Open(vp) ==
    IF vp THEN [State |-> DialogOpenModal, Win |-> "open"]
    ELSE [State |-> DialogExists, Win |-> "nil"]

\* PromptDialog(avp, opts, true, true, recv, fun) or ChoiceDialog(avp, opts,
\* choices, recv, fun), with ch the buttons and c the receiver function
NewDialog(ch, c, vp) ==
    /\ SigVal' = -1
    /\ choices' = ch
    /\ conn' = c
    /\ dlog' = <<>>
    /\ \E r \in {Open(vp)} : State' = r.State /\ Win' = r.Win

\* no MethViewData: no action has fired
NoData == [HasArgProps |-> FALSE, Args |-> <<>>, Confirm |-> FALSE, Vp |-> FALSE]

DlgIdle ==
    /\ State = DialogExists /\ SigVal = -1 /\ Win = "nil"
    /\ choices = <<>> /\ dlog = <<>>

MVIdle == md = NoData /\ mvpc = "idle" /\ conn = "none" /\ called = 0

DlgInit == DlgIdle /\ MVIdle

\* the program opens a prompt dialog with no receiver
PromptDialogCall(vp) ==
    /\ Win = "nil" /\ State = DialogExists
    /\ NewDialog(<<>>, "none", vp)
    /\ UNCHANGED <<md, mvpc, called>>
    /\ UNCHANGED <<algVars, rpVars, ssVars, rectVars, paVars, ccVars>>

\* the program opens a choice dialog with no receiver
ChoiceDialogCall(ch, vp) ==
    /\ Win = "nil" /\ State = DialogExists
    /\ NewDialog(ch, "none", vp)
    /\ UNCHANGED <<md, mvpc, called>>
    /\ UNCHANGED <<algVars, rpVars, ssVars, rectVars, paVars, ccVars>>

DlgNext ==
    \/ \E vp \in BOOLEAN : PromptDialogCall(vp)
    \/ \E ch \in ChoiceLists, vp \in BOOLEAN : ChoiceDialogCall(ch, vp)
    \/ \E kf \in KeyFuns : KeyChord(kf)
    \/ \E b \in {"ok", "cancel"} : ButtonClicked(b)
    \/ \E i \in 1..3 : ChoiceClicked(i)
    \/ CloseCall
    \/ WinClosed

---------------------------------------------------------------------------
(* MethViewCall: an action whose MethViewData is d fires.                  *)

\* an argument of the method: whether its properties set a value, and
\* whether its view has an action of its own
Arg(valSet, hasAction) == [ValSet |-> valSet, HasAction |-> hasAction]

ArgLists ==
    {<<>>, <<Arg(FALSE, FALSE)>>, <<Arg(FALSE, TRUE)>>, <<Arg(TRUE, FALSE)>>,
     <<Arg(TRUE, TRUE)>>, <<Arg(TRUE, FALSE), Arg(TRUE, TRUE)>>,
     <<Arg(FALSE, TRUE), Arg(TRUE, FALSE)>>}

\* ArgProps is nil, or has the properties of every argument
MethViewDatas ==
    {d \in [HasArgProps : BOOLEAN, Args : ArgLists, Confirm : BOOLEAN, Vp : BOOLEAN] :
        d.HasArgProps \/ d.Args = <<>>}

\* nprompt of MethViewArgData: the arguments no value is set for
NPrompt(as) == Len(SelectSeq(as, LAMBDA x : ~x.ValSet))

\* MethViewCallNoArgPrompt(ac, md, args)
MethViewCallNoArgPrompt(d) ==
    IF d.Confirm
    THEN /\ NewDialog(<<>>, "confirm", d.Vp)
         /\ mvpc' = "wait"
         /\ UNCHANGED called
    ELSE /\ called' = MethViewCallMeth(called)
         /\ mvpc' = "done"
         /\ UNCHANGED <<dlgVars, conn>>

\* a receiver function connected to a dialog of another package
ConnectOther(c) ==
    /\ conn' = c
    /\ mvpc' = "wait"
    /\ UNCHANGED <<dlgVars, called>>

MethViewCall(d) ==
    /\ mvpc = "idle"
    /\ md' = d
    /\ IF ~d.HasArgProps THEN MethViewCallNoArgPrompt(d)
       ELSE IF Len(d.Args) = 1 /\ d.Args[1].HasAction THEN ConnectOther("activate")
       ELSE IF NPrompt(d.Args) = 0 THEN MethViewCallNoArgPrompt(d)
       ELSE ConnectOther("argview")
    /\ UNCHANGED <<algVars, rpVars, ssVars, rectVars, paVars, ccVars>>

\* the signal values the dialogs of other packages send
OtherSignals == {DialogExists, DialogAccepted, DialogCanceled}

\* the view's own dialog or the ArgViewDialog sends the signal sig
OtherSignal(sig) ==
    /\ mvpc = "wait"
    /\ conn \in {"activate", "argview"}
    /\ Len(Emitted(dlog)) < MaxEvents
    /\ dlog' = Append(dlog, Call("Emit", sig))
    /\ called' = RecvFunc(conn, sig, called)
    /\ UNCHANGED <<State, SigVal, Win, choices, md, mvpc, conn>>
    /\ UNCHANGED <<algVars, rpVars, ssVars, rectVars, paVars, ccVars>>

MVNext ==
    \/ \E d \in MethViewDatas : MethViewCall(d)
    \/ \E kf \in KeyFuns : KeyChord(kf)
    \/ \E b \in {"ok", "cancel"} : ButtonClicked(b)
    \/ \E sig \in OtherSignals : OtherSignal(sig)
    \/ WinClosed

---------------------------------------------------------------------------
(* the specifications                                                      *)

\* matrix algebra
InitAlg == AlgInit /\ RPIdle /\ SSIdle /\ RectIdle /\ PAIdle /\ CCIdle /\ DlgInit

SpecAlg == InitAlg /\ [][AlgNext]_vars

\* ReadPoints
InitRP == AlgIdle /\ RPInit /\ SSIdle /\ RectIdle /\ PAIdle /\ CCIdle /\ DlgInit

SpecRP == InitRP /\ [][RPNext]_vars

\* SetString
InitSS == AlgIdle /\ RPIdle /\ SSInit /\ RectIdle /\ PAIdle /\ CCIdle /\ DlgInit

SpecSS == InitSS /\ [][SSNext]_vars

\* SetString on the separators
SpecSep == InitSS /\ [][SepNext]_vars

\* the rectangle helpers
InitRect == AlgIdle /\ RPIdle /\ SSIdle /\ RectInit /\ PAIdle /\ CCIdle /\ DlgInit

SpecRect == InitRect /\ [][RectNext]_vars

\* ParseAngle32
InitPA == AlgIdle /\ RPIdle /\ SSIdle /\ RectIdle /\ PAInit /\ CCIdle /\ DlgInit

SpecPA == InitPA /\ [][PANext]_vars

\* goroutines calling SetString
InitCC == AlgIdle /\ RPIdle /\ SSIdle /\ RectIdle /\ PAIdle /\ CCInit /\ DlgInit

SpecCC == InitCC /\ [][CCNext]_vars

\* a dialog
InitDlg == AlgIdle /\ RPIdle /\ SSIdle /\ RectIdle /\ PAIdle /\ CCIdle /\ DlgInit

SpecDlg == InitDlg /\ [][DlgNext]_vars

\* an action of a method view
SpecMV == InitDlg /\ [][MVNext]_vars

\* the callers side by side
Init == AlgInit /\ RPInit /\ SSInit /\ RectInit /\ PAInit /\ CCInit /\ DlgInit

Next == AlgNext \/ RPNext \/ SSNext \/ RectNext \/ PANext \/ CCNext \/ DlgNext \/ MVNext

Spec == Init /\ [][Next]_vars

---------------------------------------------------------------------------
(* Properties of the matrix algebra (SpecAlg)                              *)

TP(mat, pt) == TransformPoint(mat, pt[1], pt[2])

LastOp == hist[Len(hist)]

LastIs(names) == hist # <<>> /\ LastOp.op \in names

\* the elementary matrix of a prepend operation of hist
Elementary(o) ==
    CASE o.op = "Translate" -> Translate2D(o.args[1], o.args[2])
      [] o.op = "Scale"     -> Scale2D(o.args[1], o.args[2])
      [] o.op = "Rotate"    -> Rotate2D(o.args[1])
      [] o.op = "Shear"     -> Shear2D(o.args[1], o.args[2])
      [] o.op = "Skew"      -> Skew2D(o.args[1], o.args[2])

PrependOps == {"Translate", "Scale", "Rotate", "Shear", "Skew"}

\* C1: first.Multiply(second).TransformPoint(p) equals
\* second.TransformPoint(first.TransformPoint(p)) for every point p: the
\* product applies first's map and then second's.  (After m = m.Multiply(other)
\* first is prev and second is other; after m = other.Multiply(m) first is
\* other and second is prev.)
C1_MultiplyAppliesFirstThenSecond ==
    /\ LastIs({"Multiply"}) =>
           \A pt \in Points : TP(m, pt) = TP(other, TP(prev, pt))
    /\ LastIs({"MultiplyBy"}) =>
           \A pt \in Points : TP(m, pt) = TP(prev, TP(other, pt))

\* a product of two matrices that do not commute has been taken
C1_Witness ==
    /\ LastIs({"Multiply"})
    /\ \E pt \in Points : TP(other, TP(prev, pt)) # TP(prev, TP(other, pt))
    /\ \A pt \in Points : TP(m, pt) = TP(other, TP(prev, pt))

\* C2: Translate, Scale, Rotate, Shear and Skew are prepend operations:
\* M.Translate(tx,ty) equals Translate2D(tx,ty).Multiply(M), and likewise for
\* the other four, so the new elementary transform is applied to a point
\* before M's own map.
C2_MethodsPrepend ==
    LastIs(PrependOps) =>
        /\ m = Multiply(Elementary(LastOp), prev)
        /\ \A pt \in Points : TP(m, pt) = TP(prev, TP(Elementary(LastOp), pt))

\* each of the five methods has been applied to a matrix it does not commute
\* with; this one is the state after a Rotate
C2_Witness ==
    /\ LastIs({"Rotate"})
    /\ \E pt \in Points :
           TP(prev, TP(Elementary(LastOp), pt)) # TP(Elementary(LastOp), TP(prev, pt))
    /\ \A pt \in Points : TP(m, pt) = TP(prev, TP(Elementary(LastOp), pt))

\* C6: the identity matrix is a two-sided neutral element of composition:
\* M.Multiply(Identity2D()) = M and Identity2D().Multiply(M) = M.
C6_IdentityNeutral ==
    /\ Multiply(m, Identity2D) = m
    /\ Multiply(Identity2D, m) = m
    /\ (LastIs({"Multiply", "MultiplyBy"}) /\ other = Identity2D) => m = prev

\* Identity2D().Multiply(M) has been computed for an M with a translation and
\* a linear part of its own
C6_Witness ==
    /\ LastIs({"MultiplyBy"})
    /\ other = Identity2D
    /\ prev.X0 # Zero
    /\ prev.XY # Zero
    /\ m = prev

\* hist is Translate(tx,ty), Rotate(theta), Scale(sx,sy) with sx, sy > 0
IsTranslateRotateScale ==
    /\ Len(hist) = 3
    /\ hist[1].op = "Translate"
    /\ hist[2].op = "Rotate"
    /\ hist[3].op = "Scale"
    /\ F32Pos(hist[3].args[1])
    /\ F32Pos(hist[3].args[2])

\* C7: for M = Identity.Translate(tx,ty).Rotate(theta).Scale(sx,sy) with
\* positive sx, sy (sx # sy included), M.ExtractRot() is theta modulo a full
\* turn and M.ExtractScale() is (sx, sy).
C7_DecompositionRecovers ==
    (IsTranslateRotateScale /\ ext # NoExt) =>
        /\ (ext.rot - hist[2].args[1]) % 8 = 0
        /\ ext.sc = <<hist[3].args[1], hist[3].args[2]>>

---------------------------------------------------------------------------
(* Properties of ReadPoints (SpecRP)                                       *)

\* the characters number tokens are written with
IsNumChar(c) == IsNumber(c) \/ c \in {".", "-", "e", "E"}

\* the maximal runs of number characters of s, in order
RECURSIVE Fields(_)
Fields(s) ==
    IF s = <<>> THEN <<>>
    ELSE IF ~IsNumChar(Head(s)) THEN Fields(Tail(s))
    ELSE LET n == IF \E i \in 1..Len(s) : ~IsNumChar(s[i])
                  THEN (CHOOSE i \in 1..Len(s) :
                            ~IsNumChar(s[i]) /\ \A j \in 1..(i - 1) : IsNumChar(s[j])) - 1
                  ELSE Len(s)
         IN  <<SubSeq(s, 1, n)>> \o Fields(SubSeq(s, n + 1, Len(s)))

\* a token the float parser accepts, written with a lower-case exponent marker
ValidToken(t) == ~ParseFloat32(t).err /\ \A i \in 1..Len(t) : t[i] # "E"

AllValid(toks) == \A i \in 1..Len(toks) : ValidToken(toks[i])

Values(toks) == [i \in 1..Len(toks) |-> ParseFloat32(toks[i]).v]

\* C8: for a string made of valid number tokens separated by non-numeric
\* delimiter characters, ReadPoints returns exactly the values of those
\* tokens, one per token, in their order of appearance; a token that ends at
\* the end of the string is the last value.
C8_ReadPointsReturnsTokens ==
    (rpc = "ret" /\ AllValid(Fields(pstr))) => pts = Values(Fields(pstr))

\* two valid tokens, the second one ending the string
C8_Witness ==
    /\ rpc = "ret"
    /\ Len(Fields(pstr)) = 2
    /\ AllValid(Fields(pstr))
    /\ IsNumChar(pstr[Len(pstr)])
    /\ pts = Values(Fields(pstr))
    /\ Len(pts) = 2

\* s has a '-' that follows a character of a token other than 'e'
HasSplittingDash(s) ==
    \E i \in 2..Len(s) : s[i] = "-" /\ s[i - 1] # "e" /\ IsNumChar(s[i - 1])

\* s with a comma put before every '-' that does not follow an 'e'
RECURSIVE DashSplit(_)
DashSplit(s) ==
    IF Len(s) < 2 THEN s
    ELSE LET n == Len(s)
             front == DashSplit(SubSeq(s, 1, n - 1))
         IN  IF s[n] = "-" /\ s[n - 1] # "e"
             THEN front \o <<",", "-">>
             ELSE Append(front, s[n])

\* C9: a '-' that does not immediately follow an 'e' ends the current token
\* and starts a new token that includes the '-': "1-2" yields [1, -2] and
\* "1,2,-3" yields [1, 2, -3].
C9_DashStartsToken ==
    /\ (rpc = "ret" /\ pstr = <<"1", "-", "2">>) => pts = <<F32(1), F32(-2)>>
    /\ (rpc = "ret" /\ pstr = <<"1", ",", "2", ",", "-", "3">>)
           => pts = <<F32(1), F32(2), F32(-3)>>
    /\ (rpc = "ret" /\ HasSplittingDash(pstr) /\ AllValid(Fields(DashSplit(pstr))))
           => pts = Values(Fields(DashSplit(pstr)))

\* "1-2" has been scanned
C9_Witness ==
    /\ rpc = "ret"
    /\ pstr = <<"1", "-", "2">>
    /\ pts = <<F32(1), F32(-2)>>

\* C10: a number in scientific notation is one token, with the exponent
\* marker in either letter case and an embedded '-' after it kept inside the
\* token: "1e-5 2E3" yields [1e-5, 2000].
C10_ScientificNotationEitherCase ==
    (rpc = "ret" /\ pstr = <<"1", "e", "-", "5", " ", "2", "E", "3">>)
        => pts = <<F32Norm(1, -5), F32(2000)>>

\* s with every 'E' replaced by a comma: to the scanner an upper-case 'E' is
\* a delimiter like any other
EAsDelimiter(s) == [i \in 1..Len(s) |-> IF s[i] = "E" THEN "," ELSE s[i]]

\* the delimited tokens of s: the maximal runs of digits, '.', 'e' and '-',
\* cut before every '-' that does not follow an 'e'
Tokens(s) == Fields(DashSplit(EAsDelimiter(s)))

Parses(t) == ~ParseFloat32(t).err

SomeTokenFails(s) == \E i \in 1..Len(Tokens(s)) : ~Parses(Tokens(s)[i])

\* s has none of the characters a token can start with
NoNumberChars(s) == \A i \in 1..Len(s) : ~(IsNumber(s[i]) \/ s[i] \in {".", "-", "e"})

\* C11: ReadPoints is all-or-nothing: when some delimited token of the input
\* fails floating-point parsing (a lone '-', a lone 'e', a token with two
\* decimal points) it returns nil, never a partial list, so a non-empty result
\* has one value for every token; on an input with no number characters
\* ("abc") it returns no values.
C11_AllOrNothing ==
    rpc = "ret" =>
        /\ SomeTokenFails(pstr) => pts = <<>>
        /\ pts # <<>> => pts = Values(Tokens(pstr))
        /\ NoNumberChars(pstr) => pts = <<>>

\* a valid token followed by one that fails to parse has been scanned, and
\* nothing was returned
C11_Witness ==
    /\ rpc = "ret"
    /\ Len(Tokens(pstr)) = 2
    /\ Parses(Tokens(pstr)[1])
    /\ ~Parses(Tokens(pstr)[2])
    /\ pts = <<>>

---------------------------------------------------------------------------
(* Properties of SetString (SpecSS)                                        *)

\* a command of the translate / scale / rotate / skew family written with an
\* argument count the command accepts
IsFamilyCmd(d) ==
    /\ d.close
    /\ CASE d.name \in {"translate", "skew"} -> Len(d.vals) = 2
         [] d.name \in {"translatex", "translatey", "scalex", "scaley",
                        "skewx", "skewy"} -> Len(d.vals) = 1
         [] d.name = "scale" -> Len(d.vals) \in {1, 2}
         [] d.name = "rotate" -> Len(d.vals) \in {1, 3}
         [] OTHER -> FALSE

\* a matrix command written with six arguments
IsMatrixCmd(d) == d.close /\ d.name = "matrix" /\ Len(d.vals) = 6

\* the point that the transform of command d maps pt to
ElemApply(d, pt) ==
    LET v(i) == F32(d.vals[i])
    IN  CASE d.name = "translate"  -> TP(Translate2D(v(1), v(2)), pt)
          [] d.name = "translatex" -> TP(Translate2D(v(1), Zero), pt)
          [] d.name = "translatey" -> TP(Translate2D(Zero, v(1)), pt)
          [] d.name = "scale" /\ Len(d.vals) = 1 -> TP(Scale2D(v(1), v(1)), pt)
          [] d.name = "scale" /\ Len(d.vals) = 2 -> TP(Scale2D(v(1), v(2)), pt)
          [] d.name = "scalex" -> TP(Scale2D(v(1), One), pt)
          [] d.name = "scaley" -> TP(Scale2D(One, v(1)), pt)
          [] d.name = "rotate" /\ Len(d.vals) = 1 ->
                 TP(Rotate2D(d.vals[1] \div 45), pt)
          [] d.name = "rotate" /\ Len(d.vals) = 3 ->
                 TP(Translate2D(v(2), v(3)),
                    TP(Rotate2D(d.vals[1] \div 45),
                       TP(Translate2D(F32(-d.vals[2]), F32(-d.vals[3])), pt)))
          [] d.name = "skew"  -> TP(Skew2D(d.vals[1], d.vals[2]), pt)
          [] d.name = "skewx" -> TP(Skew2D(d.vals[1], 0), pt)
          [] d.name = "skewy" -> TP(Skew2D(0, d.vals[1]), pt)
          [] d.name = "matrix" ->
                 TP(Matrix2D(v(1), v(2), v(3), v(4), v(5), v(6)), pt)

\* E1(E2(...En(pt))) for the commands c1 ... cn of cs
RECURSIVE ApplyAll(_, _)
ApplyAll(cs, pt) ==
    IF cs = <<>> THEN pt ELSE ElemApply(Head(cs), ApplyAll(Tail(cs), pt))

AllCmds(P(_)) == cmds # <<>> /\ \A i \in 1..Len(cmds) : P(cmds[i])

IsFamilyOrMatrixCmd(d) == IsFamilyCmd(d) \/ IsMatrixCmd(d)

\* cmds is the two commands n1(v1) n2(v2)
CmdsAre(n1, v1, n2, v2) ==
    /\ Len(cmds) = 2
    /\ cmds[1].name = n1 /\ cmds[1].vals = v1 /\ cmds[1].close
    /\ cmds[2].name = n2 /\ cmds[2].vals = v2 /\ cmds[2].close

\* C3: for a string of well-formed translate/scale/rotate/skew-family
\* commands c1 ... cn, SetString returns no error and leaves the matrix that
\* maps a point p to E1(E2(...En(p))): the rightmost command is applied to
\* the point first.  "translate(10,20) rotate(90)" maps (1,0) to (10,21).
C3_RightmostAppliedFirst ==
    /\ (pc = "ret" /\ AllCmds(IsFamilyCmd)) =>
           /\ err = "nil"
           /\ \A pt \in Points : TP(a, pt) = ApplyAll(cmds, pt)
    /\ (pc = "ret" /\ CmdsAre("translate", <<10, 20>>, "rotate", <<90>>)) =>
           TP(a, <<F32(1), F32(0)>>) = <<F32(10), F32(21)>>

\* "translate(10,20) rotate(90)" has been parsed
C3_Witness ==
    /\ pc = "ret"
    /\ err = "nil"
    /\ CmdsAre("translate", <<10, 20>>, "rotate", <<90>>)
    /\ TP(a, <<F32(1), F32(0)>>) = <<F32(10), F32(21)>>

\* C4: every recognized command, matrix(...) included, composes its matrix
\* onto the accumulator with the prepend contract: when a matrix command
\* follows earlier commands, the transforms of those earlier commands are
\* still part of the result (applied to a point after the matrix command's
\* map).
C4_MatrixComposes ==
    (/\ pc = "ret"
     /\ AllCmds(IsFamilyOrMatrixCmd)
     /\ \E i \in 2..Len(cmds) : IsMatrixCmd(cmds[i]) /\ IsFamilyCmd(cmds[i - 1]))
        => \A pt \in Points : TP(a, pt) = ApplyAll(cmds, pt)

\* C5: SetString on "none", in any letter case and with any surrounding
\* whitespace, sets the receiver to the identity matrix (1,0,0,1,0,0) and
\* returns no error, whatever the receiver held before.
C5_NoneIsIdentity ==
    (pc \in {"loop", "ret"} /\ input \in NoneTexts) =>
        /\ pc = "ret"
        /\ err = "nil"
        /\ a = Matrix2D(F32(1), F32(0), F32(0), F32(1), F32(0), F32(0))

\* " NONE " has been parsed into a receiver that held a translation
C5_Witness ==
    /\ pc = "ret"
    /\ input = <<" ", "N", "O", "N", "E", " ">>
    /\ a0 = Translate2D(F32(5), F32(6))
    /\ a = Identity2D
    /\ err = "nil"

\* the index of the first command of cmds that is not a well-formed command
\* of the translate / scale / rotate / skew family, 0 when there is none
FirstOdd ==
    IF \E i \in 1..Len(cmds) : ~IsFamilyCmd(cmds[i])
    THEN CHOOSE i \in 1..Len(cmds) :
             ~IsFamilyCmd(cmds[i]) /\ \A j \in 1..(i - 1) : IsFamilyCmd(cmds[j])
    ELSE 0

\* the receiver holds what commands 1 .. k-1 compose to (the identity when
\* k = 1) and nothing of command k or of a later one
AccumulatedBefore(k) ==
    \A pt \in Points : TP(a, pt) = ApplyAll(SubSeq(cmds, 1, k - 1), pt)

\* a scale command with neither one nor two arguments
IsBadScale(d) == d.close /\ d.name = "scale" /\ Len(d.vals) \notin {1, 2}

\* C12: SetString on a scale command whose argument count is neither 1 nor 2
\* ("scale(1,2,3)") fails: it returns a non-nil argument-count error.
C12_ScaleBadCountFails ==
    (pc = "ret" /\ FirstOdd # 0 /\ IsBadScale(cmds[FirstOdd])) => err = "error"

\* a command of C13's list written with a number of arguments that is not its
\* arity
IsBadCount(d) ==
    /\ d.close
    /\ CASE d.name = "matrix" -> Len(d.vals) # 6
         [] d.name \in {"translate", "skew"} -> Len(d.vals) # 2
         [] d.name \in {"translatex", "translatey", "scalex", "scaley",
                        "skewx", "skewy"} -> Len(d.vals) # 1
         [] d.name = "rotate" -> Len(d.vals) = 2 \/ Len(d.vals) > 3
         [] OTHER -> FALSE

\* C13: when command k is one of matrix, translate, translateX/Y, scaleX/Y,
\* skew, skewX/Y (or rotate with 2 or more than 3 arguments) and its argument
\* count does not match its arity, SetString returns a non-nil error at that
\* command, applies no later command, and leaves the receiver equal to the
\* value accumulated from commands 1..k-1 (the identity when k = 1).
C13_BadCountLeavesPartialResult ==
    (pc = "ret" /\ FirstOdd # 0 /\ IsBadCount(cmds[FirstOdd])) =>
        /\ err = "error"
        /\ AccumulatedBefore(FirstOdd)

\* "translate(10,20) matrix(1,2)" has been parsed: an error, and the receiver
\* is the translation
C13_Witness ==
    /\ pc = "ret"
    /\ CmdsAre("translate", <<10, 20>>, "matrix", <<1, 2>>)
    /\ err = "error"
    /\ a = Translate2D(F32(10), F32(20))

\* C14: SetString never terminates the process: for every input, a
\* recognized command with an empty argument list such as "rotate()"
\* included, it returns normally with nil or an error value (no panic, no
\* out-of-range access).
C14_NeverPanics == pc = "ret" => err \in {"nil", "error"}

\* C15: when a command's opening '(' has no matching ')' ("translate(1,2"),
\* SetString returns an error immediately and the receiver holds only what
\* was composed from the commands before the unterminated one.
C15_UnterminatedIsFatal ==
    (pc = "ret" /\ FirstOdd # 0 /\ ~cmds[FirstOdd].close) =>
        /\ err = "error"
        /\ AccumulatedBefore(FirstOdd)

\* a command with a name the switch does not have
IsUnknownCmd(d) == d.close /\ d.name = "foo"

IsFamilyOrUnknownCmd(d) == IsFamilyCmd(d) \/ IsUnknownCmd(d)

\* C16: a command with an unrecognized name is not an error: it leaves the
\* accumulator unchanged, SetString goes on to parse and apply the commands
\* that follow it, and the call returns nil if those are valid.
C16_UnknownCommandSkipped ==
    (/\ pc = "ret"
     /\ AllCmds(IsFamilyOrUnknownCmd)
     /\ \E i \in 1..Len(cmds) : IsUnknownCmd(cmds[i]))
        => /\ err = "nil"
           /\ \A pt \in Points : TP(a, pt) = ApplyAll(SelectSeq(cmds, IsFamilyCmd), pt)

\* a recognized name written in upper case or with whitespace before the '('
IsSpelledCmd(d) == d.name \in {"TRANSLATE", "translate "}

\* the command d with its name lower-cased and trimmed
Canonical(d) == IF IsSpelledCmd(d) THEN [d EXCEPT !.name = "translate"] ELSE d

\* C17: the command name is the substring before '(' lower-cased and trimmed
\* of whitespace on both sides: "translate (10,20)" and "TRANSLATE(10,20)"
\* are dispatched exactly like "translate(10,20)".
C17_NameTrimmedAndLowered ==
    (/\ pc = "ret"
     /\ \A i \in 1..Len(cmds) : IsFamilyCmd(Canonical(cmds[i]))
     /\ \E i \in 1..Len(cmds) : IsSpelledCmd(cmds[i]))
        => /\ err = "nil"
           /\ \A pt \in Points :
                  TP(a, pt) = ApplyAll([i \in 1..Len(cmds) |-> Canonical(cmds[i])], pt)

---------------------------------------------------------------------------
(* Properties of the rectangle helpers (SpecRect)                          *)

\* x <= y
F32Leq(x, y) == F32Add(y, F32Neg(x))[1] >= 0

NonNegativeSize == F32Leq(Zero, rsz.X) /\ F32Leq(Zero, rsz.Y)

\* the integer rectangle r covers [pos, pos + sz] on both axes
Covers(r, pos, sz) ==
    /\ F32Leq(F32(r.Min.X), pos.X) /\ F32Leq(F32Add(pos.X, sz.X), F32(r.Max.X))
    /\ F32Leq(F32(r.Min.Y), pos.Y) /\ F32Leq(F32Add(pos.Y, sz.Y), F32(r.Max.Y))

\* the integer rectangle r lies within [pos, pos + sz] on both axes
Within(r, pos, sz) ==
    /\ F32Leq(pos.X, F32(r.Min.X)) /\ F32Leq(F32(r.Max.X), F32Add(pos.X, sz.X))
    /\ F32Leq(pos.Y, F32(r.Min.Y)) /\ F32Leq(F32(r.Max.Y), F32Add(pos.Y, sz.Y))

\* image.Rectangle.Empty
Empty(r) == r.Min.X >= r.Max.X \/ r.Min.Y >= r.Max.Y

\* image.Rectangle.In: every point of r is in s
In(r, s) ==
    \/ Empty(r)
    \/ /\ s.Min.X <= r.Min.X /\ r.Max.X <= s.Max.X
       /\ s.Min.Y <= r.Min.Y /\ r.Max.Y <= s.Max.Y

\* C18: for every position and non-negative size, the rectangle returned by
\* RectFromPosSizeMax fully covers the continuous rectangle [pos, pos+size]
\* on both axes: its Min <= pos and its Max >= pos+size.
C18_MaxRectCovers ==
    (rmax # NoRect /\ NonNegativeSize) => Covers(rmax, rpos, rsz)

\* C19: for every position and non-negative size, the rectangle returned by
\* RectFromPosSizeMin is fully contained in the continuous rectangle
\* [pos, pos+size] on both axes: its Min >= pos and its Max <= pos+size.
C19_MinRectWithin ==
    (rmin # NoRect /\ NonNegativeSize) => Within(rmin, rpos, rsz)

\* C20: for any (position, size) input, the rectangle of RectFromPosSizeMax
\* contains the rectangle of RectFromPosSizeMin computed from the same input.
C20_MaxContainsMin ==
    (rmax # NoRect /\ rmin # NoRect) => In(rmin, rmax)

\* x < y
F32Lt(x, y) == ~F32Leq(y, x)

\* the integer n is the floor of x: n <= x < n + 1
IsFloorOf(n, x) == F32Leq(F32(n), x) /\ F32Lt(x, F32(n + 1))

\* the integer n is the ceiling of x: n - 1 < x <= n
IsCeilOf(n, x) == F32Lt(F32(n - 1), x) /\ F32Leq(x, F32(n))

\* the rectangle with the given origin and extent
OriginExtent(ox, oy, ex, ey) == [Min |-> [X |-> ox, Y |-> oy], Max |-> [X |-> ox + ex, Y |-> oy + ey]]

RectExampleChosen ==
    /\ rpos = [X |-> F32Norm(12, -1), Y |-> F32Norm(18, -1)]
    /\ rsz = [X |-> F32Norm(33, -1), Y |-> F32Norm(21, -1)]

\* C21: for non-negative sizes RectFromPosSizeMax returns the rectangle with
\* origin floor(pos) and extent ceil(size), and RectFromPosSizeMin the one
\* with origin ceil(pos) and extent floor(size), each axis rounded on its own:
\* pos = (1.2, 1.8), size = (3.3, 2.1) gives origin (1,1) extent (4,3) outward
\* and origin (2,2) extent (3,2) inward.
C21_OriginAndExtentRounded ==
    /\ (rmax # NoRect /\ NonNegativeSize) =>
           /\ IsFloorOf(rmax.Min.X, rpos.X) /\ IsFloorOf(rmax.Min.Y, rpos.Y)
           /\ IsCeilOf(rmax.Max.X - rmax.Min.X, rsz.X)
           /\ IsCeilOf(rmax.Max.Y - rmax.Min.Y, rsz.Y)
    /\ (rmin # NoRect /\ NonNegativeSize) =>
           /\ IsCeilOf(rmin.Min.X, rpos.X) /\ IsCeilOf(rmin.Min.Y, rpos.Y)
           /\ IsFloorOf(rmin.Max.X - rmin.Min.X, rsz.X)
           /\ IsFloorOf(rmin.Max.Y - rmin.Min.Y, rsz.Y)
    /\ (rmax # NoRect /\ RectExampleChosen) => rmax = OriginExtent(1, 1, 4, 3)
    /\ (rmin # NoRect /\ RectExampleChosen) => rmin = OriginExtent(2, 2, 3, 2)

\* both rectangles of pos = (1.2, 1.8), size = (3.3, 2.1) have been computed
C21_Witness ==
    /\ RectExampleChosen
    /\ rmax = OriginExtent(1, 1, 4, 3)
    /\ rmin = OriginExtent(2, 2, 3, 2)

---------------------------------------------------------------------------
(* More properties of SetString (SpecSS)                                   *)

\* a rotate command with an angle and a pivot
IsPivotRotate(d) == d.close /\ d.name = "rotate" /\ Len(d.vals) = 3

\* the rotation by d's angle about d's pivot, applied to pt:
\* T(cx,cy)(R(a)(T(-cx,-cy)(pt)))
RotateAbout(d, pt) ==
    TP(Translate2D(F32(d.vals[2]), F32(d.vals[3])),
       TP(Rotate2D(d.vals[1] \div 45),
          TP(Translate2D(F32(-d.vals[2]), F32(-d.vals[3])), pt)))

\* C22: the 3-argument command rotate(a, cx, cy) rotates about the pivot
\* (cx, cy): applied to an accumulator A it yields the map
\* p -> A(T(cx,cy)(R(a)(T(-cx,-cy)(p)))), so parsed on its own it leaves the
\* pivot fixed, and with pivot (0,0) it equals the 1-argument rotate(a).
C22_RotateAboutPivot ==
    (pc = "ret" /\ AllCmds(IsFamilyCmd) /\ IsPivotRotate(cmds[Len(cmds)])) =>
        LET d == cmds[Len(cmds)]
            front == SubSeq(cmds, 1, Len(cmds) - 1)
            pivot == <<F32(d.vals[2]), F32(d.vals[3])>>
        IN  /\ err = "nil"
            /\ \A pt \in Points : TP(a, pt) = ApplyAll(front, RotateAbout(d, pt))
            /\ front = <<>> => TP(a, pivot) = pivot
            /\ (front = <<>> /\ pivot = <<Zero, Zero>>) =>
                   a = Rotate(Identity2D, d.vals[1] \div 45)

\* "translate(10,20) rotate(90,1,2)" has been parsed: the pivot (1,2) goes to
\* (11,22) and (2,2) goes a quarter turn about it and then to (11,23)
C22_Witness ==
    /\ pc = "ret"
    /\ err = "nil"
    /\ CmdsAre("translate", <<10, 20>>, "rotate", <<90, 1, 2>>)
    /\ TP(a, <<F32(1), F32(2)>>) = <<F32(11), F32(22)>>
    /\ TP(a, <<F32(2), F32(2)>>) = <<F32(11), F32(23)>>

---------------------------------------------------------------------------
(* Properties of ParseAngle32 (SpecPA)                                     *)

\* the argument is the number and the unit given as strings
ArgIs(num, unit) == apstr = num \o unit

\* C23: ParseAngle32 selects the unit from a case-insensitive trailing token
\* and converts to radians: value*pi/180 for 'deg' or no unit, value*pi/200
\* for 'grad', value unchanged for 'rad' ("45" and "45deg" give pi/4,
\* "200grad" gives pi, "1rad" gives 1); it returns an error and 0 when the
\* numeric remainder does not parse.
C23_ParseAngleUnits ==
    apc = "ret" =>
        /\ (aparts.valid /\ aparts.unit = "deg") =>
               \* value * pi / 180 = pi4 * pi / 4
               /\ ~ares.err /\ ares.v.num = Zero /\ ares.v.pi4 * 45 = aparts.n
        /\ (aparts.valid /\ aparts.unit = "grad") =>
               \* value * pi / 200 = pi4 * pi / 4
               /\ ~ares.err /\ ares.v.num = Zero /\ ares.v.pi4 * 50 = aparts.n
        /\ (aparts.valid /\ aparts.unit = "rad") =>
               /\ ~ares.err /\ ares.v.pi4 = 0 /\ ares.v.num = F32(aparts.n)
        /\ ~aparts.valid => (ares.err /\ ares.v = Angle(0, Zero))
        /\ ArgIs(<<"4", "5">>, <<>>) => ares = [v |-> Angle(1, Zero), err |-> FALSE]
        /\ ArgIs(<<"4", "5">>, Deg) => ares = [v |-> Angle(1, Zero), err |-> FALSE]
        /\ ArgIs(<<"2", "0", "0">>, Grad) => ares = [v |-> Angle(4, Zero), err |-> FALSE]
        /\ ArgIs(<<"1">>, Rad) => ares = [v |-> Angle(0, One), err |-> FALSE]

\* "200GRAD" has been parsed to pi
C23_Witness ==
    /\ apc = "ret"
    /\ apstr = <<"2", "0", "0", "G", "R", "A", "D">>
    /\ ares = [v |-> Angle(4, Zero), err |-> FALSE]

---------------------------------------------------------------------------
(* Properties of SetString across calls (SpecCC)                           *)

\* C24: SetString holds no cross-call state: the matrix and the error it
\* produces are a function of the input string only, independent of the value
\* the receiver held before the call, and calls on distinct receivers give,
\* in every interleaving, the same results as when run alone.
C24_NoCrossCallState ==
    /\ \A i \in Callers :
           cpc[i] = "ret" =>
               [a |-> ca[i], err |-> cerr[i]] = SetStringRun(cin[i])
    /\ \A i, j \in Callers :
           (cpc[i] = "ret" /\ cpc[j] = "ret" /\ cin[i] = cin[j]) =>
               (ca[i] = ca[j] /\ cerr[i] = cerr[j])
    /\ \A i, j \in Callers :
           (i # j /\ cpc[i] = "write") => ca[i] = c0[i]

\* two goroutines whose receivers held different values have both parsed
\* "translate(10,20) rotate(90)" and hold the same matrix
C24_Witness ==
    /\ \A i \in Callers : cpc[i] = "ret" /\ cerr[i] = "nil"
    /\ c0["g1"] # c0["g2"]
    /\ cin["g1"] = cin["g2"]
    /\ ca["g1"] = ca["g2"]
    /\ TP(ca["g1"], <<F32(1), F32(0)>>) = <<F32(10), F32(21)>>

---------------------------------------------------------------------------
(* Termination of SetString (SpecSS)                                       *)

\* the loop on the receiver recv and the remaining text s returns within n
\* iterations, each iteration that goes on doing so with a strictly shorter
\* text that is not empty and contains a '('
RECURSIVE ReturnsWithin(_, _, _)
ReturnsWithin(recv, s, n) ==
    /\ n > 0
    /\ \E r \in {SetStringIter(recv, s)} :
           \/ r.pc = "ret"
           \/ /\ r.pc = "loop"
              /\ Len(r.str) < Len(s)
              /\ r.str # <<>>
              /\ Contains(r.str, <<"(">>)
              /\ ReturnsWithin(r.a, r.str, n - 1)

\* C25: SetString terminates on every finite input string: each iteration of
\* its command loop goes on only with a strictly shorter remaining string,
\* which is not empty and contains a '(', so that a call that is in the loop
\* returns after at most one iteration per character left, and one more.
C25_SetStringTerminates ==
    pc = "loop" => ReturnsWithin(a, str, Len(str) + 1)

\* SetString has returned from the second iteration of its loop, which ran
\* on a shorter text than the first
C25_Witness ==
    /\ pc = "ret" /\ err = "nil"
    /\ Len(cmds) = 2
    /\ \A i \in 1..2 : IsWellFormed(cmds[i])
    /\ str = CmdText([name |-> cmds[2].name, vals |-> cmds[2].vals,
                      close |-> cmds[2].close])
    /\ Len(str) < Len(input)

---------------------------------------------------------------------------
(* Separators between commands (SpecSep)                                   *)

\* the texts of the commands cs with sep between every two of them
RECURSIVE JoinCmds(_, _)
JoinCmds(cs, sep) ==
    IF cs = <<>> THEN <<>>
    ELSE IF Len(cs) = 1 THEN CmdText(cs[1])
    ELSE CmdText(cs[1]) \o sep \o JoinCmds(Tail(cs), sep)

\* C26: between two commands, whitespace, a ';', a ';' surrounded by
\* whitespace and no separator at all are equivalent: the same commands
\* written with any of them leave the same matrix and the same error result.
C26_SeparatorsEquivalent ==
    pc = "ret" =>
        /\ input = JoinCmds(cmds, IF Len(cmds) > 1 THEN cmds[2].sep ELSE <<>>)
        /\ \A sep \in SepTexts :
               SetStringRun(JoinCmds(cmds, sep)) = [a |-> a, err |-> err]

\* "translate(10,20) ; rotate(90)" has been parsed, and both commands applied
C26_Witness ==
    /\ pc = "ret" /\ err = "nil"
    /\ input = CmdText(Cmd("translate", <<10, 20>>)) \o <<" ", ";", " ">>
                    \o CmdText(Cmd("rotate", <<90>>))
    /\ TP(a, <<F32(1), F32(0)>>) = <<F32(10), F32(21)>>

---------------------------------------------------------------------------
(* Associativity of Multiply (SpecAlg)                                     *)

\* x.Multiply(y).Multiply(z) == x.Multiply(y.Multiply(z))
Associates(x, y, z) == Multiply(Multiply(x, y), z) = Multiply(x, Multiply(y, z))

\* C27: Multiply is associative: a.Multiply(b).Multiply(c) ==
\* a.Multiply(b.Multiply(c)) for the matrices a, b, c the operations build,
\* over exact arithmetic; after m = prev.Multiply(other), m.Multiply(c) is
\* prev.Multiply(other.Multiply(c)).
C27_MultiplyAssociative ==
    /\ LastIs({"Multiply"}) =>
           \A c \in Operands : Multiply(m, c) = Multiply(prev, Multiply(other, c))
    /\ LastIs({"MultiplyBy"}) =>
           \A c \in Operands : Multiply(m, c) = Multiply(other, Multiply(prev, c))
    /\ Associates(prev, other, m)

\* m = prev.Multiply(other) has run on a sheared matrix and an operand that
\* scales and translates, and the two groupings with a rotation give a
\* matrix that is neither m nor the rotation
C27_Witness ==
    /\ LastIs({"Multiply"})
    /\ Len(hist) = 3
    /\ \E i \in 1..2 : hist[i].op = "Shear"
    /\ other = Multiply(Scale2D(F32(2), F32(3)), Translate2D(F32(-3), F32(0)))
    /\ Multiply(m, Rotate2D(2)) = Multiply(prev, Multiply(other, Rotate2D(2)))
    /\ Multiply(m, Rotate2D(2)) \notin {m, Rotate2D(2)}

---------------------------------------------------------------------------
(* Properties of Dialog (SpecDlg)                                          *)

\* what a step appended to dlog
Appended == SubSeq(dlog', Len(dlog) + 1, Len(dlog'))

\* the step ran the method meth, which set State to st, then emitted one
\* signal, SigVal if it is not negative and st otherwise, and then called Close
Ran(meth, st) ==
    /\ State' = st
    /\ Appended = <<Call(meth, -1),
                    Call("Emit", IF SigVal' >= 0 THEN SigVal' ELSE st),
                    Call("Close", -1)>>

\* C28: Accept sets State to DialogAccepted and Cancel sets it to
\* DialogCanceled; each then emits exactly one DialogSig, whose value is
\* SigVal when SigVal >= 0 and the new State otherwise, and asks for the
\* close only after it has emitted; Close itself changes neither State nor
\* SigVal and emits no signal.
C28_AcceptCancelEmitThenClose ==
    [][dlog' # dlog =>
          /\ Len(dlog') > Len(dlog)
          /\ SubSeq(dlog', 1, Len(dlog)) = dlog
          /\ \/ Ran("Accept", DialogAccepted)
             \/ Ran("Cancel", DialogCanceled)
             \/ /\ Appended = <<Call("Close", -1)>>
                /\ State' = State
                /\ SigVal' = SigVal
          /\ Win # "nil" => Win' = "closing"]_vars

\* the button at index 1 of a choice dialog was clicked: Accept has emitted
\* SigVal = 1 and then asked the open window to close
C28_Witness ==
    /\ State = DialogAccepted
    /\ SigVal = 1
    /\ dlog = <<Call("Accept", -1), Call("Emit", 1), Call("Close", -1)>>
    /\ Win = "closing"

\* the dialog has reported its outcome
Reported == State \in {DialogAccepted, DialogCanceled}

\* C30: a dialog reports its outcome at most once: after Accept or Cancel
\* has run on it, a further Accept or Cancel emits no DialogSig and does not
\* change State.
C30_ReportsOnce ==
    [][Reported => (State' = State /\ Emitted(dlog') = Emitted(dlog))]_vars

---------------------------------------------------------------------------
(* Properties of MethViewCall (SpecMV)                                     *)

\* the signals equal to DialogAccepted that the receiver function got
Accepts == SelectSeq(dlog, LAMBDA e : e.ev = "Emit" /\ e.val = DialogAccepted)

\* C29: when the MethViewData has the MethViewConfirm flag, the method is
\* never called before a dialog signal equal to DialogAccepted was received,
\* on every path of MethViewCall, and a DialogCanceled signal never leads to
\* a call: there are no more calls than DialogAccepted signals.
C29_ConfirmedBeforeCall ==
    md.Confirm => called <= Len(Accepts)

\* an action with the confirm flag and no arguments fired, the prompt dialog
\* was canceled and, before the window had closed, accepted: one call
C29_Witness ==
    /\ md.Confirm /\ ~md.HasArgProps
    /\ conn = "confirm"
    /\ called = 1
    /\ Len(dlog) = 6
    /\ dlog[2] = Call("Emit", DialogCanceled)
    /\ dlog[5] = Call("Emit", DialogAccepted)

===========================================================================
